---- MODULE Spec2Model ----
(***************************************************************************)
(* A model of the Nifty-50 signal scanner (Roninopp/Stock-Ai).             *)
(*                                                                         *)
(* ScanSpec   one call of SignalScanner.scan_stock: the gates in the order *)
(*            the code evaluates them, over the results its analyzers give. *)
(* RiskSpec   the risk model and the Signal record of scan_stock           *)
(*            (signal_scanner.py 96-138) as a function of the entry price  *)
(*            and the direction.                                           *)
(* BatchSpec  one call of SignalScanner.scan_all_stocks: the pool threads  *)
(*            running scan_stock, the caller collecting their futures;     *)
(*            BatchFairSpec adds that a thread that can step does step.    *)
(* CacheSpec  DataFetcher.fetch_stock_data called from several threads,    *)
(*            with clear_cache and the clock, statement by statement.      *)
(* SendSpec   TradingBot.send_signal called for each Signal of a scan.     *)
(* BotSpec    the command handlers of TradingBot, the approval file and    *)
(*            the trading loops, as tasks of one event loop.               *)
(* IctScoreSpec, ClusterSpec, ProximitySpec, RsiSpec, PatternSpec,         *)
(* LiquidityGrabSpec, OrderBlockSpec, BreakRetestSpec, EngulfingSpec,      *)
(* VolumeSpec, ConfirmationSpec                                            *)
(*            one call of an analyzer function each (get_ict_score,        *)
(*            _cluster_levels, is_near_support_resistance, calculate_rsi,  *)
(*            detect_patterns, _detect_liquidity_grabs,                    *)
(*            _detect_order_blocks, _detect_break_and_retest,              *)
(*            detect_patterns on engulfing pairs,                          *)
(*            check_volume_confirmation, get_confirmation) on arguments    *)
(*            drawn from small sets.                                       *)
(* ShortSeriesSpec                                                         *)
(*            the five analyzer entry points on series around their        *)
(*            minimum lengths.                                             *)
(*                                                                         *)
(* Units.  A price is an integer number of mills (1/1000 rupee).  The      *)
(* percentages of config.py are written in tenths of a percent, so that    *)
(* entry * (1 - 0.8/100) is entry * (1000 - 8) millionths of a rupee       *)
(* ("micros").  A ratio is kept as a fraction num/den.                      *)
(***************************************************************************)
EXTENDS Integers, Sequences, FiniteSets, TLC

\* ------------------------------------------------------------------ config
\* config.py, in tenths (0.8 % is 8, 1.5x is 15).
STOP_LOSS_PERCENTAGE == 8
TARGET_PERCENTAGE_1 == 12
TARGET_PERCENTAGE_2 == 20
MIN_RISK_REWARD_RATIO == 15
SR_TOUCH_THRESHOLD == 5
VOLUME_SPIKE_MULTIPLIER == 15
RSI_PERIOD == 14
RSI_OVERSOLD == 30
RSI_OVERBOUGHT == 70
\* signal_scanner.py 48: the least number of bars scan_stock accepts.
MIN_BARS == 50
\* indicators.py 80: the least number of bars get_confirmation accepts.
MIN_CONFIRMATION_BARS == 20
\* config.py, in seconds.
CACHE_DURATION == 25
\* indicators.py: _cluster_levels' default threshold 0.005, in thousandths.
CLUSTER_THRESHOLD == 5
\* config.py 43: the bars calculate_support_resistance looks back over.
SR_LOOKBACK == 50
\* logs.py: record_scan_time keeps the last 100 durations.
MAX_SCAN_TIMES == 100

\* ------------------------------------------------------------------ bounds
\* Entry prices run over 0 .. MaxEntryPrice mills.
MaxEntryPrice == 1300
\* detect_patterns reports at most MaxPatterns of its eight patterns at once.
MaxPatterns == 2
\* scan_all_stocks runs over NumStocks stocks with a pool of MaxWorkers threads.
NumStocks == 3
MaxWorkers == 2
\* fetch_stock_data is called by NumThreads threads, MaxCalls times in all, for
\* NumKeys cache keys, while the clock runs up to MaxTime seconds.
NumThreads == 2
MaxCalls == 3
NumKeys == 2
MaxTime == 50
\* Each detector of the structure analyzer reports at most MaxStructureSignals
\* signals.
MaxStructureSignals == 2
\* _cluster_levels is given at most MaxLevels swing values.
MaxLevels == 4
\* is_near_support_resistance is given at most MaxNearLevels levels of a kind.
MaxNearLevels == 2
\* The series given to calculate_rsi is flat but for its last MaxMoves closes.
MaxMoves == 3
\* The bot handles at most MaxCommands commands and starts at most MaxLoops
\* trading loops.
MaxCommands == 4
MaxLoops == 2

VARIABLES
    riskPc,     \* RiskSpec: "input", "gated", "signal", "skipped"
    riskIn,     \* RiskSpec: [entry_price, signal_type]
    riskOut,    \* RiskSpec: the locals of lines 96-115 and the Signal fields
    scanPc,     \* ScanSpec: the place scan_stock has reached
    df,         \* what fetch_stock_data returned, as the analyzers see it
    levels,     \* [support, resistance]: calculate_support_resistance's lists
    sr,         \* [type, level]: is_near_support_resistance's answer
    patterns,   \* detect_patterns' list
    ict_signals,\* analyze's dict
    idx,        \* the pattern the for loop of line 73 is at
    gateLog,    \* the gates evaluated so far, with their outcome
    result,     \* what scan_stock returned
    scanErrors, \* performance_tracker.errors, as raised by this call
    cache,      \* DataFetcher.cache: a dict from cache key to what was stored
    last_fetch_time, \* DataFetcher.last_fetch_time: a dict from key to a time
    now,        \* time.time(), in seconds
    api_calls,  \* performance_tracker.api_calls
    errors,     \* performance_tracker.errors
    signals_sent, \* performance_tracker.signals_sent
    scan_times, \* len(performance_tracker.scan_times)
    batchPc,    \* BatchSpec: the place scan_all_stocks has reached
    taskPc,     \* BatchSpec: per stock, the place its scan_stock task has reached
    taskTmp,    \* BatchSpec: per stock, the counter value read by a += 1
    taskIn,     \* BatchSpec: per stock, the series and analyzer inputs it got
    taskResult, \* BatchSpec: per stock, the result of its future
    taskRaised, \* BatchSpec: per stock, whether an exception was raised in it
    collected,  \* BatchSpec: the futures as_completed has yielded
    signals,    \* BatchSpec: the list scan_all_stocks builds
    thPc,       \* CacheSpec: per thread, the place in fetch_stock_data
    thKey,      \* CacheSpec: per thread, cache_key
    thTime,     \* CacheSpec: per thread, current_time
    thFrame,    \* CacheSpec: per thread, the frame ticker.history answered
    thTmp,      \* CacheSpec: per thread, the counter value read by a += 1
    thRet,      \* CacheSpec: per thread, how its last call ended
    thCalls,    \* CacheSpec: the calls of fetch_stock_data made so far
    clrPc,      \* CacheSpec: the place clear_cache has reached
    fnPc,       \* analyzer specs: "input" before the call, "done" after it
    fnIn,       \* analyzer specs: the arguments of the call
    fnOut,      \* analyzer specs: what the call returned
    sendPc,     \* SendSpec: "sending" while the caller's for loop runs
    batch,      \* SendSpec: the list of Signals scan_all_stocks returned
    sendIdx,    \* SendSpec: how many of them were handed to send_signal
    chart_enabled, \* config.ENABLE_CHART_GENERATION
    attempts,   \* SendSpec: the calls made to the Telegram bot, in order
    escaped,    \* SendSpec: an exception left send_signal
    is_running, \* TradingBot.is_running
    loopPc,     \* BotSpec: per trading_loop task, the place it has reached
    cmdPc,      \* BotSpec: "starting" while /autotrade on awaits its reply
    approval_file, \* [exists, users]: the approval file and the ids in it
    persisted,  \* BotSpec: every id the approval file has held so far
    lastCmd,    \* BotSpec: [n, user, cmd, target, ret]: the last command
    revealed,   \* BotSpec: the users /status or /logs has answered
    manual_scans \* BotSpec: the scans /scan has started

riskVars == <<riskPc, riskIn, riskOut>>
scanVars == <<scanPc, df, levels, sr, patterns, ict_signals, idx, gateLog,
              result, scanErrors>>
trackerVars == <<api_calls, errors, signals_sent, scan_times>>
fetcherVars == <<cache, last_fetch_time, now>>
batchVars == <<batchPc, taskPc, taskTmp, taskIn, taskResult, taskRaised,
               collected, signals>>
cacheVars == <<thPc, thKey, thTime, thFrame, thTmp, thRet, thCalls, clrPc>>
fnVars == <<fnPc, fnIn, fnOut>>
sendVars == <<sendPc, batch, sendIdx, chart_enabled, attempts, escaped>>
botVars == <<is_running, loopPc, cmdPc, approval_file, persisted, lastCmd,
            revealed, manual_scans>>
concVars == <<trackerVars, fetcherVars, batchVars, cacheVars, fnVars, sendVars,
              botVars>>
vars == <<riskVars, scanVars, concVars>>

SignalTypes == {"BUY", "SELL"}

\* Entry prices: every price up to MaxEntryPrice mills, and two prices of the
\* size the instruments trade at (101.01 and 1234.567 rupees).
EntryPrices == (0..MaxEntryPrice) \cup {101010, 1234567}

Abs(x) == IF x < 0 THEN -x ELSE x

\* ------------------------------------------------------------- risk model
\* Lines 99-106.  Results are in micros.
StopLossOneSided(entry_price, signal_type) ==
    entry_price * (1000 - STOP_LOSS_PERCENTAGE)

StopLoss(entry_price, signal_type) ==
    IF signal_type = "BUY"
    THEN entry_price * (1000 - STOP_LOSS_PERCENTAGE)
    ELSE entry_price * (1000 + STOP_LOSS_PERCENTAGE)

Target1(entry_price, signal_type) ==
    IF signal_type = "BUY"
    THEN entry_price * (1000 + TARGET_PERCENTAGE_1)
    ELSE entry_price * (1000 - TARGET_PERCENTAGE_1)

Target2(entry_price, signal_type) ==
    IF signal_type = "BUY"
    THEN entry_price * (1000 + TARGET_PERCENTAGE_2)
    ELSE entry_price * (1000 - TARGET_PERCENTAGE_2)

\* Lines 109-110.
Risk(entry_price, stop_loss) == Abs(entry_price * 1000 - stop_loss)

Reward(entry_price, target_1) == Abs(target_1 - entry_price * 1000)

\* The sign of the rounding error that the double-precision products,
\* differences and quotient of lines 100-111 leave in rr_ratio: the computed
\* quotient is the exact one, or the nearest doubles below or above it.
FloatErr == {-1, 0, 1}

RECURSIVE GCD(_, _)
GCD(a, b) == IF b = 0 THEN a ELSE GCD(b, a % b)

\* Line 111: rr_ratio = reward / risk if risk > 0 else 0.  The quotient is kept
\* as the fraction in lowest terms.
RRRatio(risk, reward, fp) ==
    IF risk > 0
    THEN [num |-> reward \div GCD(reward, risk),
          den |-> risk \div GCD(reward, risk), fp |-> fp]
    ELSE [num |-> 0, den |-> 1, fp |-> 0]

\* Line 114: rr_ratio < config.MIN_RISK_REWARD_RATIO, on the computed value.
RiskGateRejectsAtMinimum(rr_ratio) ==
    \/ rr_ratio.num * 10 < MIN_RISK_REWARD_RATIO * rr_ratio.den
    \/ rr_ratio.num * 10 = MIN_RISK_REWARD_RATIO * rr_ratio.den

RiskGateRejects(rr_ratio) ==
    \/ rr_ratio.num * 10 < MIN_RISK_REWARD_RATIO * rr_ratio.den
    \/ /\ rr_ratio.num * 10 = MIN_RISK_REWARD_RATIO * rr_ratio.den
       /\ rr_ratio.fp < 0

\* round(x, 2) of a value in micros, in hundredths of a rupee.  On an exact
\* half the double nearest to x decides; up is that choice.
Round2(micros, up) ==
    LET q == micros \div 10000
        r == micros % 10000
    IN  IF r > 5000 THEN q + 1
        ELSE IF r = 5000 THEN q + up
        ELSE q

\* round(rr_ratio, 2), in hundredths.
RoundRatio2(rr_ratio) ==
    (2 * 100 * rr_ratio.num + rr_ratio.den) \div (2 * rr_ratio.den)

\* Lines 96-115: the locals computed for one candidate.
RiskLocals(entry_price, signal_type, fp) ==
    LET stop_loss == StopLoss(entry_price, signal_type)
        target_1 == Target1(entry_price, signal_type)
        target_2 == Target2(entry_price, signal_type)
        risk == Risk(entry_price, stop_loss)
        reward == Reward(entry_price, target_1)
        rr_ratio == RRRatio(risk, reward, fp)
    IN  [stop_loss |-> stop_loss, target_1 |-> target_1, target_2 |-> target_2,
         risk |-> risk, reward |-> reward, rr_ratio |-> rr_ratio,
         rejected |-> RiskGateRejects(rr_ratio)]

\* Lines 118-127: the price fields of the Signal, each rounded to 2 decimals.
SignalPrices(entry_price, loc, ups) ==
    [entry_price |-> Round2(entry_price * 1000, ups[1]),
     stop_loss |-> Round2(loc.stop_loss, ups[2]),
     target_1 |-> Round2(loc.target_1, ups[3]),
     target_2 |-> Round2(loc.target_2, ups[4]),
     risk_reward |-> RoundRatio2(loc.rr_ratio)]

NoLocals == [rejected |-> TRUE]
NoPrices == [risk_reward |-> 0]

\* -------------------------------------------------------------- analyzers
\* pattern_detector.py 25-87: the eight patterns, in the order detect_patterns
\* tests and appends them.
PatternTable ==
    << [name |-> "Bullish Engulfing", type |-> "BUY", strength |-> "Strong"],
       [name |-> "Bearish Engulfing", type |-> "SELL", strength |-> "Strong"],
       [name |-> "Hammer", type |-> "BUY", strength |-> "Medium"],
       [name |-> "Shooting Star", type |-> "SELL", strength |-> "Medium"],
       [name |-> "Morning Star", type |-> "BUY", strength |-> "Very Strong"],
       [name |-> "Evening Star", type |-> "SELL", strength |-> "Very Strong"],
       [name |-> "Bullish Pin Bar", type |-> "BUY", strength |-> "Strong"],
       [name |-> "Bearish Pin Bar", type |-> "SELL", strength |-> "Strong"] >>

PatternNames == {PatternTable[i].name : i \in 1..Len(PatternTable)}

\* detect_patterns, were its tests chained with elif: the first hit only.
DetectFirstPattern(hits) ==
    LET all == SelectSeq(PatternTable, LAMBDA p : p.name \in hits)
    IN  IF all = <<>> THEN <<>> ELSE <<all[1]>>

\* detect_patterns, given the names of the predicates that hold on the
\* trailing bars: one entry per predicate that holds, in the table's order.
DetectPatterns(hits) == SelectSeq(PatternTable, LAMBDA p : p.name \in hits)

\* The sets of predicates that hold together, within the bound.
PatternHits == {h \in SUBSET PatternNames : Cardinality(h) <= MaxPatterns}

\* ict_analyzer.py 79-85, 115-121, 155-160, 170-175, 221-226, 244-249: every
\* entry of the three lists has 'type' BULLISH or BEARISH.
Bullish == [type |-> "BULLISH"]
Bearish == [type |-> "BEARISH"]

\* _detect_order_blocks appends the bullish blocks, then the bearish ones;
\* _detect_liquidity_grabs and _detect_break_and_retest append at most one
\* entry of each type, and the two types exclude each other there.
OrderBlockLists == {<<>>, <<Bullish>>, <<Bearish>>, <<Bullish, Bearish>>}
LiquidityGrabLists == {<<>>, <<Bullish>>, <<Bearish>>}
BreakRetestLists == {<<>>, <<Bullish>>, <<Bearish>>}

IctResults ==
    [order_blocks : OrderBlockLists, liquidity_grabs : LiquidityGrabLists,
     break_retest : BreakRetestLists]

NoIct == [order_blocks |-> <<>>, liquidity_grabs |-> <<>>, break_retest |-> <<>>]

\* The for/if/break of get_ict_score: is there an entry whose 'type' equals
\* signal_type (a comparison of strings).
HasType(list, signal_type) ==
    \E i \in 1..Len(list) : list[i].type = signal_type

\* ict_analyzer.py 253-278.
GetIctScore(ict, signal_type) ==
    (IF HasType(ict.order_blocks, signal_type) THEN 1 ELSE 0)
    + (IF HasType(ict.liquidity_grabs, signal_type) THEN 1 ELSE 0)
    + (IF HasType(ict.break_retest, signal_type) THEN 1 ELSE 0)

\* indicators.py 66-115, on the last RSI value and the volume ratio (tenths)
\* of the series.
GetConfirmation(d, signal_type) ==
    IF d.len < MIN_CONFIRMATION_BARS
    THEN [rsi_confirmed |-> FALSE, volume_confirmed |-> FALSE, strength |-> "None"]
    ELSE LET rsi_confirmed ==
                 IF signal_type \in {"BUY", "BULLISH"}
                 THEN d.rsi < RSI_OVERSOLD + 10
                 ELSE IF signal_type \in {"SELL", "BEARISH"}
                 THEN d.rsi > RSI_OVERBOUGHT - 10
                 ELSE FALSE
             volume_confirmed == d.volume_ratio >= VOLUME_SPIKE_MULTIPLIER
         IN  [rsi_confirmed |-> rsi_confirmed,
              volume_confirmed |-> volume_confirmed,
              strength |-> IF rsi_confirmed /\ volume_confirmed THEN "Strong"
                           ELSE IF rsi_confirmed \/ volume_confirmed THEN "Medium"
                           ELSE "Weak"]

\* indicators.py 195-196, 201-202: distance <= threshold.
IsNear(price, level) == Abs(price - level) * 1000 <= SR_TOUCH_THRESHOLD * level

\* The first index of lv, from i on, whose level is near; 0 when there is none.
RECURSIVE FirstNear(_, _, _)
FirstNear(price, lv, i) ==
    IF i > Len(lv) THEN 0
    ELSE IF IsNear(price, lv[i]) THEN i
    ELSE FirstNear(price, lv, i + 1)

\* indicators.py 185-205, with the two loops in the other order.
IsNearSupportFirst(current_price, support_levels, resistance_levels) ==
    LET r == FirstNear(current_price, resistance_levels, 1)
        s == FirstNear(current_price, support_levels, 1)
    IN  IF s # 0 THEN [type |-> "support", level |-> support_levels[s]]
        ELSE IF r # 0 THEN [type |-> "resistance", level |-> resistance_levels[r]]
        ELSE [type |-> "none", level |-> 0]

\* indicators.py 185-205.
IsNearSupportResistance(current_price, support_levels, resistance_levels) ==
    LET r == FirstNear(current_price, resistance_levels, 1)
        s == FirstNear(current_price, support_levels, 1)
    IN  IF r # 0 THEN [type |-> "resistance", level |-> resistance_levels[r]]
        ELSE IF s # 0 THEN [type |-> "support", level |-> support_levels[s]]
        ELSE [type |-> "none", level |-> 0]

\* ------------------------------------------------- the gates of scan_stock
\* Lines 77-80.
DirectionNeverRejects(sr_type, signal_type) == FALSE

DirectionRejects(sr_type, signal_type) ==
    \/ sr_type = "support" /\ signal_type # "BUY"
    \/ sr_type = "resistance" /\ signal_type # "SELL"

\* Line 86.
ConfirmationRejects(conf) == ~(conf.rsi_confirmed \/ conf.volume_confirmed)

\* Line 93.
StructureNeverRejects(ict_score) == FALSE

StructureRejects(ict_score) == ict_score < 1

Gate(name, i, pass) == [gate |-> name, idx |-> i, pass |-> pass]

\* Lines 73-115 for pattern p, the i-th of the list: the gates the iteration
\* evaluates, in order, each with its outcome.  A gate that rejects ends the
\* iteration (continue).
GateTrailWithoutContinue(d, sr_type, ict, p, i, fp) ==
    << Gate("direction", i, ~DirectionRejects(sr_type, p.type)),
       Gate("confirmation", i, ~ConfirmationRejects(GetConfirmation(d, p.type))),
       Gate("structure", i, ~StructureRejects(GetIctScore(ict, p.type))),
       Gate("risk", i, ~RiskLocals(d.close, p.type, fp).rejected) >>

GateTrail(d, sr_type, ict, p, i, fp) ==
    LET direction == ~DirectionRejects(sr_type, p.type)
        confirmation == ~ConfirmationRejects(GetConfirmation(d, p.type))
        structure == ~StructureRejects(GetIctScore(ict, p.type))
        risk == ~RiskLocals(d.close, p.type, fp).rejected
    IN  <<Gate("direction", i, direction)>>
        \o (IF direction
            THEN <<Gate("confirmation", i, confirmation)>>
                 \o (IF confirmation
                     THEN <<Gate("structure", i, structure)>>
                          \o (IF structure THEN <<Gate("risk", i, risk)>> ELSE <<>>)
                     ELSE <<>>)
            ELSE <<>>)

\* The iteration reached line 117.
Confirmed(trail) == Len(trail) = 4 /\ trail[4].pass

\* Lines 118-156.
MakeSignal(d, s, ict, p, fp, ups) ==
    [kind |-> "signal",
     signal_type |-> p.type,
     pattern_name |-> p.name,
     pattern_strength |-> p.strength,
     prices |-> SignalPrices(d.close, RiskLocals(d.close, p.type, fp), ups),
     sr_type |-> s.type,
     sr_level |-> s.level,
     ict_score |-> GetIctScore(ict, p.type),
     confirmation |-> GetConfirmation(d, p.type)]

\* return None.
NoSignal == [kind |-> "none"]

\* What fetch_stock_data hands to scan_stock: None, or a series.
NoneDf == [present |-> FALSE, len |-> 0, close |-> 0, rsi |-> 50, volume_ratio |-> 10]

SeriesLengths == {MIN_BARS - 1, MIN_BARS}
ClosePrices == {100000, 101010}
RsiValues == {35, 50, 65}
VolumeRatios == {10, 15}

FetchResults ==
    {NoneDf} \cup [present : {TRUE}, len : SeriesLengths, close : ClosePrices,
                   rsi : RsiValues, volume_ratio : VolumeRatios]

\* Lists calculate_support_resistance returns (cluster means, ascending).
SupportLists == {<<>>, <<99600>>, <<98000, 99600>>}
ResistanceLists == {<<>>, <<100300>>, <<100300, 102000>>}

\* ------------------------------------------------ data fetcher and tracker
\* config.STOCKS, as indices; the cache key of stock s is s (one interval).
Stocks == 1..NumStocks

\* A Python dict is a function whose domain is its key set.
EmptyDict == [k \in {} |-> 0]
Put(dct, k, v) == [x \in (DOMAIN dct) \cup {k} |-> IF x = k THEN v ELSE dct[x]]

\* None, as a value a data frame variable may hold.
NoneData == [kind |-> "None"]

\* What ticker.history may answer: a frame of rows bars of which nan hold a
\* NaN, with or without all of the five required columns.
HistoryFrames ==
    { [rows |-> 0, nan |-> 0, cols |-> TRUE],
      [rows |-> MIN_BARS, nan |-> 0, cols |-> TRUE],
      [rows |-> MIN_BARS, nan |-> MIN_BARS, cols |-> TRUE],
      [rows |-> MIN_BARS, nan |-> 0, cols |-> FALSE] }

\* data_fetcher.py 61-83: None when a column is missing, else the rows
\* without NaN.
PrepareData(frame, key) ==
    IF ~frame.cols
    THEN NoneData
    ELSE [kind |-> "series", key |-> key, len |-> frame.rows - frame.nan]

\* logs.py 118-123 and data_fetcher.py 14-18.
TrackerInit ==
    /\ api_calls = 0
    /\ errors = 0
    /\ signals_sent = 0
    /\ scan_times = 0

FetcherInit ==
    /\ cache = EmptyDict
    /\ last_fetch_time = EmptyDict
    /\ now = CACHE_DURATION

\* The analyzer inputs of one scan_stock call besides the series.
NoScenario == [close |-> 0, rsi |-> 50, volume_ratio |-> 10, support |-> <<>>,
               resistance |-> <<>>, hits |-> {}, ict |-> NoIct]

BatchScenarios ==
    { NoScenario,
      [close |-> 100000, rsi |-> 35, volume_ratio |-> 10, support |-> <<99600>>,
       resistance |-> <<>>, hits |-> {"Bullish Engulfing", "Hammer"},
       ict |-> [order_blocks |-> <<Bullish>>, liquidity_grabs |-> <<>>,
                break_retest |-> <<>>]] }

\* The series as the analyzers see it.
AnalyzerView(series, scen) ==
    IF series.kind = "None"
    THEN NoneDf
    ELSE [present |-> TRUE, len |-> series.len, close |-> scen.close,
          rsi |-> scen.rsi, volume_ratio |-> scen.volume_ratio]

\* signal_scanner.py 73-166: the loop from pattern i on.
RECURSIVE LoopResult(_, _, _, _, _, _, _)
LoopResult(d, s, ict, pats, i, fp, ups) ==
    IF i > Len(pats)
    THEN NoSignal
    ELSE IF Confirmed(GateTrail(d, s.type, ict, pats[i], i, fp))
         THEN MakeSignal(d, s, ict, pats[i], fp, ups)
         ELSE LoopResult(d, s, ict, pats, i + 1, fp, ups)

\* signal_scanner.py 48-166: what scan_stock returns when nothing raises.
ScanStockResult(series, scen, fp, ups) ==
    LET d == AnalyzerView(series, scen)
        s == IsNearSupportResistance(d.close, scen.support, scen.resistance)
        pats == DetectPatterns(scen.hits)
    IN  IF ~d.present \/ d.len < MIN_BARS THEN NoSignal
        ELSE IF s.type = "none" THEN NoSignal
        ELSE IF pats = <<>> THEN NoSignal
        ELSE LoopResult(d, s, scen.ict, pats, 1, fp, ups)

NoInput == [frame |-> [rows |-> 0, nan |-> 0, cols |-> TRUE], series |-> NoneData,
            scen |-> NoScenario]

BatchIdle ==
    /\ batchPc = "off"
    /\ taskPc = [s \in Stocks |-> "none"]
    /\ taskTmp = [s \in Stocks |-> 0]
    /\ taskIn = [s \in Stocks |-> NoInput]
    /\ taskResult = [s \in Stocks |-> NoSignal]
    /\ taskRaised = [s \in Stocks |-> FALSE]
    /\ collected = {}
    /\ signals = <<>>

Threads == 1..NumThreads
CacheKeys == 1..NumKeys

\* The locals of a thread that is not inside fetch_stock_data.
NoFrame == [rows |-> 0, nan |-> 0, cols |-> TRUE]

\* How a call of fetch_stock_data ended: not yet, or with a value of the
\* cache ("hit"), of a fresh fetch ("fresh"), with None after an exception of
\* the fetch ("error"), or with a KeyError raised at line 33.
NoReturn == [kind |-> "none", key |-> 0, value |-> NoneData]

CacheIdle ==
    /\ thPc = [t \in Threads |-> "off"]
    /\ thKey = [t \in Threads |-> 0]
    /\ thTime = [t \in Threads |-> 0]
    /\ thFrame = [t \in Threads |-> NoFrame]
    /\ thTmp = [t \in Threads |-> 0]
    /\ thRet = [t \in Threads |-> NoReturn]
    /\ thCalls = 0
    /\ clrPc = "off"

\* No analyzer is being called on its own.
FnIdle ==
    /\ fnPc = "off"
    /\ fnIn = <<>>
    /\ fnOut = <<>>

\* No batch of Signals is being delivered.
SendIdle ==
    /\ sendPc = "off"
    /\ batch = <<>>
    /\ sendIdx = 0
    /\ chart_enabled = TRUE
    /\ attempts = <<>>
    /\ escaped = FALSE

\* The bot handles no command and runs no loop.
BotIdle ==
    /\ is_running = FALSE
    /\ loopPc = <<>>
    /\ cmdPc = "off"
    /\ approval_file = [exists |-> FALSE, users |-> {}]
    /\ persisted = {}
    /\ lastCmd = [n |-> 0, user |-> "", cmd |-> "", target |-> "", ret |-> FALSE]
    /\ revealed = {}
    /\ manual_scans = 0

ConcIdle ==
    /\ TrackerInit /\ FetcherInit /\ BatchIdle /\ CacheIdle /\ FnIdle
    /\ SendIdle /\ BotIdle

\* ---------------------------------------------------------------- RiskSpec
RiskInit ==
    /\ riskPc = "input"
    /\ riskIn \in [entry_price : EntryPrices, signal_type : SignalTypes]
    /\ riskOut = [loc |-> NoLocals, sig |-> NoPrices]
    /\ scanPc = "off"
    /\ df = NoneDf
    /\ levels = [support |-> <<>>, resistance |-> <<>>]
    /\ sr = [type |-> "none", level |-> 0]
    /\ patterns = <<>>
    /\ ict_signals = NoIct
    /\ idx = 0
    /\ gateLog = <<>>
    /\ result = NoSignal
    /\ scanErrors = 0
    /\ ConcIdle

\* Lines 96-115 for one candidate.
CalcRisk ==
    /\ riskPc = "input"
    /\ \E fp \in FloatErr :
         riskOut' = [riskOut EXCEPT
                       !.loc = RiskLocals(riskIn.entry_price, riskIn.signal_type, fp)]
    /\ riskPc' = "gated"
    /\ UNCHANGED riskIn
    /\ UNCHANGED <<scanVars, concVars>>

\* Lines 114-115: continue.
SkipCandidate ==
    /\ riskPc = "gated"
    /\ riskOut.loc.rejected
    /\ riskPc' = "skipped"
    /\ UNCHANGED <<riskIn, riskOut>>
    /\ UNCHANGED <<scanVars, concVars>>

\* Lines 117-138.
BuildSignal ==
    /\ riskPc = "gated"
    /\ ~riskOut.loc.rejected
    /\ \E ups \in [1..4 -> {0, 1}] :
         riskOut' = [riskOut EXCEPT
                       !.sig = SignalPrices(riskIn.entry_price, riskOut.loc, ups)]
    /\ riskPc' = "signal"
    /\ UNCHANGED riskIn
    /\ UNCHANGED <<scanVars, concVars>>

RiskNext == CalcRisk \/ SkipCandidate \/ BuildSignal

RiskSpec == RiskInit /\ [][RiskNext]_vars

\* ---------------------------------------------------------------- ScanSpec
RiskIdle ==
    /\ riskPc = "off"
    /\ riskIn = [entry_price |-> 0, signal_type |-> "BUY"]
    /\ riskOut = [loc |-> NoLocals, sig |-> NoPrices]

ScanInit ==
    /\ scanPc = "fetch"
    /\ df = NoneDf
    /\ levels = [support |-> <<>>, resistance |-> <<>>]
    /\ sr = [type |-> "none", level |-> 0]
    /\ patterns = <<>>
    /\ ict_signals = NoIct
    /\ idx = 0
    /\ gateLog = <<>>
    /\ result = NoSignal
    /\ scanErrors = 0
    /\ RiskIdle
    /\ ConcIdle

\* Line 48, without the test of the length.
FetchRejectsAbsentOnly(d) == ~d.present

\* Line 48: df is None or len(df) < 50.
FetchRejects(d) == ~d.present \/ d.len < MIN_BARS

\* Lines 42-49.
ScanFetch ==
    /\ scanPc = "fetch"
    /\ \E d \in FetchResults :
         LET pass == ~FetchRejects(d)
         IN  /\ df' = d
             /\ gateLog' = gateLog \o <<Gate("fetch", 0, pass)>>
             /\ scanPc' = IF pass THEN "levels" ELSE "done"
    /\ UNCHANGED <<levels, sr, patterns, ict_signals, idx, result, scanErrors>>
    /\ UNCHANGED <<riskVars, concVars>>

\* Lines 52-61.
ScanProximity ==
    /\ scanPc = "levels"
    /\ \E sup \in SupportLists, res \in ResistanceLists :
         LET near == IsNearSupportResistance(df.close, sup, res)
         IN  /\ levels' = [support |-> sup, resistance |-> res]
             /\ sr' = near
             /\ gateLog' = gateLog \o <<Gate("proximity", 0, near.type # "none")>>
             /\ scanPc' = IF near.type # "none" THEN "patterns" ELSE "done"
    /\ UNCHANGED <<df, patterns, ict_signals, idx, result, scanErrors>>
    /\ UNCHANGED <<riskVars, concVars>>

\* Lines 64-67.
ScanPatterns ==
    /\ scanPc = "patterns"
    /\ \E hits \in PatternHits :
         /\ patterns' = DetectPatterns(hits)
         /\ gateLog' = gateLog \o <<Gate("patterns", 0, hits # {})>>
         /\ scanPc' = IF hits # {} THEN "analyze" ELSE "done"
    /\ UNCHANGED <<df, levels, sr, ict_signals, idx, result, scanErrors>>
    /\ UNCHANGED <<riskVars, concVars>>

\* Line 70.
ScanAnalyze ==
    /\ scanPc = "analyze"
    /\ ict_signals' \in IctResults
    /\ idx' = 1
    /\ scanPc' = "loop"
    /\ UNCHANGED <<df, levels, sr, patterns, gateLog, result, scanErrors>>
    /\ UNCHANGED <<riskVars, concVars>>

\* Lines 73-166: one iteration of the loop, and the return that ends it.
EvalPattern ==
    /\ scanPc = "loop"
    /\ \E fp \in FloatErr :
         LET p == patterns[idx]
             trail == GateTrail(df, sr.type, ict_signals, p, idx, fp)
         IN  /\ gateLog' = gateLog \o trail
             /\ IF Confirmed(trail)
                THEN /\ \E ups \in [1..4 -> {0, 1}] :
                          result' = MakeSignal(df, sr, ict_signals, p, fp, ups)
                     /\ scanPc' = "done"
                     /\ idx' = idx
                ELSE /\ result' = NoSignal
                     /\ idx' = idx + 1
                     /\ scanPc' = IF idx = Len(patterns) THEN "done" ELSE "loop"
    /\ UNCHANGED <<df, levels, sr, patterns, ict_signals, scanErrors>>
    /\ UNCHANGED <<riskVars, concVars>>

\* Lines 168-171: an exception of an analyzer ends the call with None and one
\* increment of the error counter.
ScanRaise ==
    /\ scanPc \in {"levels", "patterns", "analyze", "loop"}
    /\ result' = NoSignal
    /\ scanErrors' = scanErrors + 1
    /\ scanPc' = "failed"
    /\ UNCHANGED <<df, levels, sr, patterns, ict_signals, idx, gateLog>>
    /\ UNCHANGED <<riskVars, concVars>>

ScanNext ==
    \/ ScanFetch
    \/ ScanProximity
    \/ ScanPatterns
    \/ ScanAnalyze
    \/ EvalPattern
    \/ ScanRaise

ScanSpec == ScanInit /\ [][ScanNext]_vars

\* --------------------------------------------------------------- BatchSpec
\* scan_all_stocks (signal_scanner.py 174-207) over Stocks with a pool of
\* MaxWorkers threads, each task running scan_stock on a stock of its own.
ScanIdle ==
    /\ scanPc = "off"
    /\ df = NoneDf
    /\ levels = [support |-> <<>>, resistance |-> <<>>]
    /\ sr = [type |-> "none", level |-> 0]
    /\ patterns = <<>>
    /\ ict_signals = NoIct
    /\ idx = 0
    /\ gateLog = <<>>
    /\ result = NoSignal
    /\ scanErrors = 0

BatchInit ==
    /\ TrackerInit
    /\ FetcherInit
    /\ batchPc = "start"
    /\ taskPc = [s \in Stocks |-> "none"]
    /\ taskTmp = [s \in Stocks |-> 0]
    /\ taskIn = [s \in Stocks |-> NoInput]
    /\ taskResult = [s \in Stocks |-> NoSignal]
    /\ taskRaised = [s \in Stocks |-> FALSE]
    /\ collected = {}
    /\ signals = <<>>
    /\ RiskIdle
    /\ ScanIdle
    /\ CacheIdle
    /\ FnIdle
    /\ SendIdle
    /\ BotIdle

\* The threads of the pool that hold a task.
Busy == {s \in Stocks : taskPc[s] \notin {"none", "queued", "finished"}}

\* Where scan_stock goes when an analyzer raises: the handler of line 168.
AfterScanRaiseUncounted == "finished"

AfterScanRaise == "err_read"

\* Lines 186-189: every stock is submitted.
BatchSubmit ==
    /\ batchPc = "start"
    /\ batchPc' = "collect"
    /\ taskPc' = [s \in Stocks |-> "queued"]
    /\ UNCHANGED <<taskTmp, taskIn, taskResult, taskRaised, collected, signals>>
    /\ UNCHANGED <<riskVars, scanVars, botVars, sendVars, fnVars, cacheVars, trackerVars, fetcherVars>>

\* A free thread of the pool takes the oldest queued task.
StartTask(s) ==
    /\ taskPc[s] = "queued"
    /\ \A q \in Stocks : taskPc[q] = "queued" => s <= q
    /\ Cardinality(Busy) < MaxWorkers
    /\ taskPc' = [taskPc EXCEPT ![s] = "call"]
    /\ UNCHANGED <<batchPc, taskTmp, taskIn, taskResult, taskRaised, collected, signals>>
    /\ UNCHANGED <<riskVars, scanVars, botVars, sendVars, fnVars, cacheVars, trackerVars, fetcherVars>>

\* data_fetcher.py 26-40: the cache lookup and, on a miss, ticker.history,
\* which answers with a frame, raises, or never answers.
TaskHistory(s) ==
    /\ taskPc[s] = "call"
    /\ IF /\ s \in DOMAIN cache
          /\ now - (IF s \in DOMAIN last_fetch_time THEN last_fetch_time[s] ELSE 0)
               < CACHE_DURATION
       THEN /\ taskIn' = [taskIn EXCEPT ![s].series = cache[s]]
            /\ taskPc' = [taskPc EXCEPT ![s] =
                            IF cache[s].kind = "None" \/ cache[s].len < MIN_BARS
                            THEN "finished" ELSE "scan"]
            /\ UNCHANGED taskRaised
       ELSE \/ /\ \E f \in HistoryFrames : taskIn' = [taskIn EXCEPT ![s].frame = f]
               /\ taskPc' = [taskPc EXCEPT ![s] = "api_read"]
               /\ UNCHANGED taskRaised
            \/ /\ taskRaised' = [taskRaised EXCEPT ![s] = TRUE]
               /\ taskPc' = [taskPc EXCEPT ![s] = "err_read"]
               /\ UNCHANGED taskIn
            \/ /\ taskPc' = [taskPc EXCEPT ![s] = "stalled"]
               /\ UNCHANGED <<taskIn, taskRaised>>
    /\ UNCHANGED <<batchPc, taskTmp, taskResult, collected, signals>>
    /\ UNCHANGED <<riskVars, scanVars, botVars, sendVars, fnVars, cacheVars, trackerVars, fetcherVars>>

\* data_fetcher.py 42, logs.py 136-137: self.api_calls += 1 reads ...
TaskApiRead(s) ==
    /\ taskPc[s] = "api_read"
    /\ taskTmp' = [taskTmp EXCEPT ![s] = api_calls]
    /\ taskPc' = [taskPc EXCEPT ![s] = "api_write"]
    /\ UNCHANGED <<batchPc, taskIn, taskResult, taskRaised, collected, signals>>
    /\ UNCHANGED <<riskVars, scanVars, botVars, sendVars, fnVars, cacheVars, trackerVars, fetcherVars>>

\* ... and writes; then lines 44-46: an empty frame makes fetch_stock_data
\* return None, and scan_stock return None at line 49.
TaskApiWrite(s) ==
    /\ taskPc[s] = "api_write"
    /\ api_calls' = taskTmp[s] + 1
    /\ taskPc' = [taskPc EXCEPT ![s] =
                    IF taskIn[s].frame.rows = 0 THEN "finished" ELSE "store"]
    /\ UNCHANGED <<errors, signals_sent, scan_times>>
    /\ UNCHANGED <<batchPc, taskTmp, taskIn, taskResult, taskRaised, collected, signals>>
    /\ UNCHANGED <<riskVars, scanVars, botVars, sendVars, fnVars, cacheVars, fetcherVars>>

\* data_fetcher.py 48-54 and signal_scanner.py 48-49.
TaskStore(s) ==
    /\ taskPc[s] = "store"
    /\ LET series == PrepareData(taskIn[s].frame, s)
       IN  /\ cache' = Put(cache, s, series)
           /\ last_fetch_time' = Put(last_fetch_time, s, now)
           /\ taskIn' = [taskIn EXCEPT ![s].series = series]
           /\ taskPc' = [taskPc EXCEPT ![s] =
                           IF series.kind = "None" \/ series.len < MIN_BARS
                           THEN "finished" ELSE "scan"]
    /\ UNCHANGED now
    /\ UNCHANGED <<batchPc, taskTmp, taskResult, taskRaised, collected, signals>>
    /\ UNCHANGED <<riskVars, scanVars, botVars, sendVars, fnVars, cacheVars, trackerVars>>

\* signal_scanner.py 52-166 when no analyzer raises.
TaskScan(s) ==
    /\ taskPc[s] = "scan"
    /\ \E scen \in BatchScenarios, fp \in FloatErr, ups \in [1..4 -> {0, 1}] :
         /\ taskIn' = [taskIn EXCEPT ![s].scen = scen]
         /\ taskResult' = [taskResult EXCEPT ![s] =
                             ScanStockResult(taskIn[s].series, scen, fp, ups)]
    /\ taskPc' = [taskPc EXCEPT ![s] = "finished"]
    /\ UNCHANGED <<batchPc, taskTmp, taskRaised, collected, signals>>
    /\ UNCHANGED <<riskVars, scanVars, botVars, sendVars, fnVars, cacheVars, trackerVars, fetcherVars>>

\* signal_scanner.py 52-166 when an analyzer raises: control goes to line 168.
TaskScanRaise(s) ==
    /\ taskPc[s] = "scan"
    /\ taskRaised' = [taskRaised EXCEPT ![s] = TRUE]
    /\ taskPc' = [taskPc EXCEPT ![s] = AfterScanRaise]
    /\ UNCHANGED <<batchPc, taskTmp, taskIn, taskResult, collected, signals>>
    /\ UNCHANGED <<riskVars, scanVars, botVars, sendVars, fnVars, cacheVars, trackerVars, fetcherVars>>

\* data_fetcher.py 57 or signal_scanner.py 170, logs.py 142-143:
\* self.errors += 1 reads ...
TaskErrRead(s) ==
    /\ taskPc[s] = "err_read"
    /\ taskTmp' = [taskTmp EXCEPT ![s] = errors]
    /\ taskPc' = [taskPc EXCEPT ![s] = "err_write"]
    /\ UNCHANGED <<batchPc, taskIn, taskResult, taskRaised, collected, signals>>
    /\ UNCHANGED <<riskVars, scanVars, botVars, sendVars, fnVars, cacheVars, trackerVars, fetcherVars>>

\* ... and writes; the task returns None.
TaskErrWrite(s) ==
    /\ taskPc[s] = "err_write"
    /\ errors' = taskTmp[s] + 1
    /\ taskPc' = [taskPc EXCEPT ![s] = "finished"]
    /\ UNCHANGED <<api_calls, signals_sent, scan_times>>
    /\ UNCHANGED <<batchPc, taskTmp, taskIn, taskResult, taskRaised, collected, signals>>
    /\ UNCHANGED <<riskVars, scanVars, botVars, sendVars, fnVars, cacheVars, fetcherVars>>

\* Lines 191-197: as_completed yields a finished future.
Collect(s) ==
    /\ batchPc = "collect"
    /\ taskPc[s] = "finished"
    /\ s \notin collected
    /\ collected' = collected \cup {s}
    /\ IF taskResult[s].kind = "signal"
       THEN /\ signals' = Append(signals, [stock |-> s, signal |-> taskResult[s]])
            /\ signals_sent' = signals_sent + 1
       ELSE UNCHANGED <<signals, signals_sent>>
    /\ UNCHANGED <<api_calls, errors, scan_times>>
    /\ UNCHANGED <<batchPc, taskPc, taskTmp, taskIn, taskResult, taskRaised>>
    /\ UNCHANGED <<riskVars, scanVars, botVars, sendVars, fnVars, cacheVars, fetcherVars>>

\* Lines 199-207: as_completed is exhausted once every future was yielded, the
\* with block ends, the duration is recorded and the list returned.
BatchReturn ==
    /\ batchPc = "collect"
    /\ collected = Stocks
    /\ scan_times' = IF scan_times < MAX_SCAN_TIMES THEN scan_times + 1 ELSE scan_times
    /\ batchPc' = "returned"
    /\ UNCHANGED <<api_calls, errors, signals_sent>>
    /\ UNCHANGED <<taskPc, taskTmp, taskIn, taskResult, taskRaised, collected, signals>>
    /\ UNCHANGED <<riskVars, scanVars, botVars, sendVars, fnVars, cacheVars, fetcherVars>>

BatchNext ==
    \/ BatchSubmit
    \/ \E s \in Stocks : StartTask(s)
    \/ \E s \in Stocks : TaskHistory(s)
    \/ \E s \in Stocks : TaskApiRead(s)
    \/ \E s \in Stocks : TaskApiWrite(s)
    \/ \E s \in Stocks : TaskStore(s)
    \/ \E s \in Stocks : TaskScan(s)
    \/ \E s \in Stocks : TaskScanRaise(s)
    \/ \E s \in Stocks : TaskErrRead(s)
    \/ \E s \in Stocks : TaskErrWrite(s)
    \/ \E s \in Stocks : Collect(s)
    \/ BatchReturn

BatchSpec == BatchInit /\ [][BatchNext]_vars

\* Every thread that can take a step eventually takes one, and so does the
\* caller of scan_all_stocks.
BatchFairSpec == BatchSpec /\ WF_vars(BatchNext)

\* --------------------------------------------------------------- CacheSpec
\* fetch_stock_data (data_fetcher.py 21-58) called from NumThreads threads on
\* one DataFetcher, clear_cache (104-108) called from another, and the clock.
CacheInit ==
    /\ TrackerInit
    /\ FetcherInit
    /\ thPc = [t \in Threads |-> "idle"]
    /\ thKey = [t \in Threads |-> 0]
    /\ thTime = [t \in Threads |-> 0]
    /\ thFrame = [t \in Threads |-> NoFrame]
    /\ thTmp = [t \in Threads |-> 0]
    /\ thRet = [t \in Threads |-> NoReturn]
    /\ thCalls = 0
    /\ clrPc = "idle"
    /\ RiskIdle
    /\ ScanIdle
    /\ BatchIdle
    /\ FnIdle
    /\ SendIdle
    /\ BotIdle

\* The call of thread t returns: its locals are gone.
Return(t, kind, value) ==
    /\ thRet' = [thRet EXCEPT ![t] = [kind |-> kind, key |-> thKey[t], value |-> value]]
    /\ thPc' = [thPc EXCEPT ![t] = "idle"]
    /\ thKey' = [thKey EXCEPT ![t] = 0]
    /\ thTime' = [thTime EXCEPT ![t] = 0]
    /\ thFrame' = [thFrame EXCEPT ![t] = NoFrame]
    /\ thTmp' = [thTmp EXCEPT ![t] = 0]

\* Lines 26-27.
FetchCall(t, k) ==
    /\ thPc[t] = "idle"
    /\ thCalls < MaxCalls
    /\ thCalls' = thCalls + 1
    /\ thKey' = [thKey EXCEPT ![t] = k]
    /\ thTime' = [thTime EXCEPT ![t] = now]
    /\ thRet' = [thRet EXCEPT ![t] = NoReturn]
    /\ thPc' = [thPc EXCEPT ![t] = "check_key"]
    /\ UNCHANGED <<thFrame, thTmp, clrPc>>
    /\ UNCHANGED <<riskVars, scanVars, botVars, sendVars, fnVars, batchVars, trackerVars, fetcherVars>>

\* Line 30: cache_key in self.cache.
FetchCheckKey(t) ==
    /\ thPc[t] = "check_key"
    /\ thPc' = [thPc EXCEPT ![t] =
                  IF thKey[t] \in DOMAIN cache THEN "check_time" ELSE "history"]
    /\ UNCHANGED <<thKey, thTime, thFrame, thTmp, thRet, thCalls, clrPc>>
    /\ UNCHANGED <<riskVars, scanVars, botVars, sendVars, fnVars, batchVars, trackerVars, fetcherVars>>

\* Line 31: current_time - self.last_fetch_time.get(cache_key, 0) < duration.
FetchCheckTime(t) ==
    /\ thPc[t] = "check_time"
    /\ LET last == IF thKey[t] \in DOMAIN last_fetch_time
                   THEN last_fetch_time[thKey[t]] ELSE 0
       IN  thPc' = [thPc EXCEPT ![t] =
                      IF thTime[t] - last < CACHE_DURATION
                      THEN "read_cache" ELSE "history"]
    /\ UNCHANGED <<thKey, thTime, thFrame, thTmp, thRet, thCalls, clrPc>>
    /\ UNCHANGED <<riskVars, scanVars, botVars, sendVars, fnVars, batchVars, trackerVars, fetcherVars>>

\* Line 33: return self.cache[cache_key], a KeyError when the key is gone.
FetchReadCache(t) ==
    /\ thPc[t] = "read_cache"
    /\ IF thKey[t] \in DOMAIN cache
       THEN Return(t, "hit", cache[thKey[t]])
       ELSE Return(t, "KeyError", NoneData)
    /\ UNCHANGED <<thCalls, clrPc>>
    /\ UNCHANGED <<riskVars, scanVars, botVars, sendVars, fnVars, batchVars, trackerVars, fetcherVars>>

\* Lines 35-40: ticker.history answers with a frame or raises.
FetchHistory(t) ==
    /\ thPc[t] = "history"
    /\ \/ /\ \E f \in HistoryFrames : thFrame' = [thFrame EXCEPT ![t] = f]
          /\ thPc' = [thPc EXCEPT ![t] = "api_read"]
       \/ /\ thPc' = [thPc EXCEPT ![t] = "err_read"]
          /\ UNCHANGED thFrame
    /\ UNCHANGED <<thKey, thTime, thTmp, thRet, thCalls, clrPc>>
    /\ UNCHANGED <<riskVars, scanVars, botVars, sendVars, fnVars, batchVars, trackerVars, fetcherVars>>

\* Line 42, logs.py 136-137: self.api_calls += 1 reads ...
FetchApiRead(t) ==
    /\ thPc[t] = "api_read"
    /\ thTmp' = [thTmp EXCEPT ![t] = api_calls]
    /\ thPc' = [thPc EXCEPT ![t] = "api_write"]
    /\ UNCHANGED <<thKey, thTime, thFrame, thRet, thCalls, clrPc>>
    /\ UNCHANGED <<riskVars, scanVars, botVars, sendVars, fnVars, batchVars, trackerVars, fetcherVars>>

\* ... and writes; lines 44-46: an empty frame ends the call with None.
FetchApiWrite(t) ==
    /\ thPc[t] = "api_write"
    /\ api_calls' = thTmp[t] + 1
    /\ IF thFrame[t].rows = 0
       THEN Return(t, "fresh", NoneData)
       ELSE /\ thPc' = [thPc EXCEPT ![t] = "store"]
            /\ UNCHANGED <<thKey, thTime, thFrame, thTmp, thRet>>
    /\ UNCHANGED <<errors, signals_sent, scan_times>>
    /\ UNCHANGED <<thCalls, clrPc>>
    /\ UNCHANGED <<riskVars, scanVars, botVars, sendVars, fnVars, batchVars, fetcherVars>>

\* Lines 48 and 51: self.cache[cache_key] = self._prepare_data(df).
FetchStore(t) ==
    /\ thPc[t] = "store"
    /\ cache' = Put(cache, thKey[t], PrepareData(thFrame[t], thKey[t]))
    /\ thPc' = [thPc EXCEPT ![t] = "stamp"]
    /\ UNCHANGED <<last_fetch_time, now>>
    /\ UNCHANGED <<thKey, thTime, thFrame, thTmp, thRet, thCalls, clrPc>>
    /\ UNCHANGED <<riskVars, scanVars, botVars, sendVars, fnVars, batchVars, trackerVars>>

\* Lines 52 and 54: the stamp, and return df.
FetchStamp(t) ==
    /\ thPc[t] = "stamp"
    /\ last_fetch_time' = Put(last_fetch_time, thKey[t], thTime[t])
    /\ Return(t, "fresh", PrepareData(thFrame[t], thKey[t]))
    /\ UNCHANGED <<cache, now>>
    /\ UNCHANGED <<thCalls, clrPc>>
    /\ UNCHANGED <<riskVars, scanVars, botVars, sendVars, fnVars, batchVars, trackerVars>>

\* Line 57, logs.py 142-143: self.errors += 1 reads ...
FetchErrRead(t) ==
    /\ thPc[t] = "err_read"
    /\ thTmp' = [thTmp EXCEPT ![t] = errors]
    /\ thPc' = [thPc EXCEPT ![t] = "err_write"]
    /\ UNCHANGED <<thKey, thTime, thFrame, thRet, thCalls, clrPc>>
    /\ UNCHANGED <<riskVars, scanVars, botVars, sendVars, fnVars, batchVars, trackerVars, fetcherVars>>

\* ... and writes; line 58: return None.
FetchErrWrite(t) ==
    /\ thPc[t] = "err_write"
    /\ errors' = thTmp[t] + 1
    /\ Return(t, "error", NoneData)
    /\ UNCHANGED <<api_calls, signals_sent, scan_times>>
    /\ UNCHANGED <<thCalls, clrPc>>
    /\ UNCHANGED <<riskVars, scanVars, botVars, sendVars, fnVars, batchVars, fetcherVars>>

\* Line 106: self.cache = {}.
ClearCacheDict ==
    /\ clrPc = "idle"
    /\ cache' = EmptyDict
    /\ clrPc' = "times"
    /\ UNCHANGED <<last_fetch_time, now>>
    /\ UNCHANGED <<thPc, thKey, thTime, thFrame, thTmp, thRet, thCalls>>
    /\ UNCHANGED <<riskVars, scanVars, botVars, sendVars, fnVars, batchVars, trackerVars>>

\* Line 107: self.last_fetch_time = {}.
ClearCacheTimes ==
    /\ clrPc = "times"
    /\ last_fetch_time' = EmptyDict
    /\ clrPc' = "idle"
    /\ UNCHANGED <<cache, now>>
    /\ UNCHANGED <<thPc, thKey, thTime, thFrame, thTmp, thRet, thCalls>>
    /\ UNCHANGED <<riskVars, scanVars, botVars, sendVars, fnVars, batchVars, trackerVars>>

\* CACHE_DURATION seconds pass.
Tick ==
    /\ now < MaxTime
    /\ now' = now + CACHE_DURATION
    /\ UNCHANGED <<cache, last_fetch_time>>
    /\ UNCHANGED <<riskVars, scanVars, botVars, sendVars, fnVars, batchVars, trackerVars, cacheVars>>

CacheNext ==
    \/ \E t \in Threads, k \in CacheKeys : FetchCall(t, k)
    \/ \E t \in Threads : FetchCheckKey(t)
    \/ \E t \in Threads : FetchCheckTime(t)
    \/ \E t \in Threads : FetchReadCache(t)
    \/ \E t \in Threads : FetchHistory(t)
    \/ \E t \in Threads : FetchApiRead(t)
    \/ \E t \in Threads : FetchApiWrite(t)
    \/ \E t \in Threads : FetchStore(t)
    \/ \E t \in Threads : FetchStamp(t)
    \/ \E t \in Threads : FetchErrRead(t)
    \/ \E t \in Threads : FetchErrWrite(t)
    \/ ClearCacheDict
    \/ ClearCacheTimes
    \/ Tick

CacheSpec == CacheInit /\ [][CacheNext]_vars

\* ------------------------------------------------------------ IctScoreSpec
\* ICTAnalyzer.get_ict_score (ict_analyzer.py 253-278) called, as scan_stock
\* calls it at line 90, with a dict of analyze and the type of a pattern.
OthersIdle ==
    /\ RiskIdle
    /\ ScanIdle
    /\ TrackerInit
    /\ FetcherInit
    /\ BatchIdle
    /\ CacheIdle
    /\ SendIdle
    /\ BotIdle

\* The lists a detector may report: its dicts carry 'BULLISH' or 'BEARISH'.
RECURSIVE StructureLists(_)
StructureLists(n) ==
    IF n = 0
    THEN {<<>>}
    ELSE StructureLists(n - 1)
         \cup {Append(l, x) : l \in {m \in StructureLists(n - 1) : Len(m) = n - 1},
                              x \in {Bullish, Bearish}}

IctScoreInit ==
    /\ fnPc = "input"
    /\ fnIn \in [ict : [order_blocks : StructureLists(MaxStructureSignals),
                        liquidity_grabs : StructureLists(MaxStructureSignals),
                        break_retest : StructureLists(MaxStructureSignals)],
                 signal_type : SignalTypes]
    /\ fnOut = 0
    /\ OthersIdle

IctScoreCall ==
    /\ fnPc = "input"
    /\ fnOut' = GetIctScore(fnIn.ict, fnIn.signal_type)
    /\ fnPc' = "done"
    /\ UNCHANGED fnIn
    /\ UNCHANGED <<riskVars, scanVars, botVars, sendVars, trackerVars, fetcherVars, batchVars, cacheVars>>

IctScoreNext == IctScoreCall

IctScoreSpec == IctScoreInit /\ [][IctScoreNext]_vars

\* ------------------------------------------------------------- ClusterSpec
\* IndicatorAnalyzer._cluster_levels (indicators.py 159-183) on a list of
\* swing values, in mills.
RECURSIVE SeqsUpTo(_, _)
SeqsUpTo(S, n) ==
    IF n = 0
    THEN {<<>>}
    ELSE SeqsUpTo(S, n - 1)
         \cup {Append(l, x) : l \in {m \in SeqsUpTo(S, n - 1) : Len(m) = n - 1}, x \in S}

\* Swing values around the threshold: 100500 is 0.5% above 100000, 100501 a
\* mill more; 100900 is within 0.5% of 100400 and not of 100000.
SwingValues == {100000, 100400, 100500, 100501, 100900, 101010}

\* Line 167: sorted(levels).
RECURSIVE InsertSorted(_, _)
InsertSorted(x, l) ==
    IF l = <<>> THEN <<x>>
    ELSE IF x <= Head(l) THEN <<x>> \o l
    ELSE <<Head(l)>> \o InsertSorted(x, Tail(l))

RECURSIVE Sorted(_)
Sorted(l) == IF l = <<>> THEN <<>> ELSE InsertSorted(Head(l), Sorted(Tail(l)))

\* Line 173, with the previous value in place of the first.
ClusterJoinsPrevious(level, current_cluster) ==
    Abs(level - current_cluster[Len(current_cluster)]) * 1000
        <= CLUSTER_THRESHOLD * current_cluster[Len(current_cluster)]

\* Line 173.
ClusterJoins(level, current_cluster) ==
    Abs(level - current_cluster[1]) * 1000 <= CLUSTER_THRESHOLD * current_cluster[1]

\* Lines 171-178: the loop from index i on (1-based), then line 181; the
\* clusters are kept as lists here and averaged by ClusterLevels.
RECURSIVE ClusterFrom(_, _, _, _)
ClusterFrom(level_list, i, current_cluster, clustered) ==
    IF i > Len(level_list)
    THEN Append(clustered, current_cluster)
    ELSE IF ClusterJoins(level_list[i], current_cluster)
         THEN ClusterFrom(level_list, i + 1, Append(current_cluster, level_list[i]), clustered)
         ELSE ClusterFrom(level_list, i + 1, <<level_list[i]>>, Append(clustered, current_cluster))

RECURSIVE SumSeq(_)
SumSeq(l) == IF l = <<>> THEN 0 ELSE Head(l) + SumSeq(Tail(l))

\* np.mean of a cluster, as the fraction sum / n.
Mean(cluster) == [sum |-> SumSeq(cluster), n |-> Len(cluster)]

\* Lines 164-183: the returned list of means, with the clusters they average.
ClusterLevels(level_list) ==
    IF level_list = <<>>
    THEN [groups |-> <<>>, means |-> <<>>]
    ELSE LET sorted == Sorted(level_list)
             groups == ClusterFrom(sorted, 2, <<sorted[1]>>, <<>>)
         IN  [groups |-> groups,
              means |-> [k \in 1..Len(groups) |-> Mean(groups[k])]]

ClusterInit ==
    /\ fnPc = "input"
    /\ fnIn \in SeqsUpTo(SwingValues, MaxLevels)
    /\ fnOut = [groups |-> <<>>, means |-> <<>>]
    /\ OthersIdle

ClusterCall ==
    /\ fnPc = "input"
    /\ fnOut' = ClusterLevels(fnIn)
    /\ fnPc' = "done"
    /\ UNCHANGED fnIn
    /\ UNCHANGED <<riskVars, scanVars, botVars, sendVars, trackerVars, fetcherVars, batchVars, cacheVars>>

ClusterNext == ClusterCall

ClusterSpec == ClusterInit /\ [][ClusterNext]_vars

\* ----------------------------------------------------------- ProximitySpec
\* IndicatorAnalyzer.is_near_support_resistance (indicators.py 186-205) on a
\* price and two ascending lists of levels, in mills.
AscendingSeqs(S, n) ==
    {l \in SeqsUpTo(S, n) : \A i \in 1..(Len(l) - 1) : l[i] < l[i + 1]}

\* Levels around 100000: 99700 and 100050 are both within 0.5% of it, the
\* second one nearer, and so is 100500; 99000 is not.
NearLevels == {99000, 99700, 100050, 100500}
NearPrices == {100000, 100600}

ProximityInit ==
    /\ fnPc = "input"
    /\ fnIn \in [current_price : NearPrices,
                 support_levels : AscendingSeqs(NearLevels, MaxNearLevels),
                 resistance_levels : AscendingSeqs(NearLevels, MaxNearLevels)]
    /\ fnOut = [type |-> "none", level |-> 0]
    /\ OthersIdle

ProximityCall ==
    /\ fnPc = "input"
    /\ fnOut' = IsNearSupportResistance(fnIn.current_price, fnIn.support_levels,
                                        fnIn.resistance_levels)
    /\ fnPc' = "done"
    /\ UNCHANGED fnIn
    /\ UNCHANGED <<riskVars, scanVars, botVars, sendVars, trackerVars, fetcherVars, batchVars, cacheVars>>

ProximityNext == ProximityCall

ProximitySpec == ProximityInit /\ [][ProximityNext]_vars

\* ----------------------------------------------------------------- RsiSpec
\* IndicatorAnalyzer.calculate_rsi (indicators.py 20-41) on the closes of a
\* series, in mills.  A value of the returned Series is NaN or the fraction
\* num / den.
NaN == [nan |-> TRUE, num |-> 0, den |-> 1]
Number(num, den) == [nan |-> FALSE, num |-> num, den |-> den]

\* Line 31: delta = df['Close'].diff(); the first one is NaN.
\* Lines 34-35: where(delta > 0, 0) and -where(delta < 0, 0) of bar j.
GainAt(closes, j) ==
    IF j >= 2 /\ closes[j] > closes[j - 1] THEN closes[j] - closes[j - 1] ELSE 0

LossAt(closes, j) ==
    IF j >= 2 /\ closes[j] < closes[j - 1] THEN closes[j - 1] - closes[j] ELSE 0

RECURSIVE WindowSum(_, _, _, _)
WindowSum(F(_, _), closes, from, to) ==
    IF from > to THEN 0 ELSE F(closes, from) + WindowSum(F, closes, from + 1, to)

\* Lines 34-39 at bar i: rolling(window=period).mean() is NaN before the
\* window is full; gain / loss is NaN for 0 / 0 and infinite for x / 0, and
\* 100 - 100 / (1 + rs) is then NaN, respectively 100.
RsiAt(closes, i) ==
    IF i < RSI_PERIOD
    THEN NaN
    ELSE LET gain == WindowSum(GainAt, closes, i - RSI_PERIOD + 1, i)
             loss == WindowSum(LossAt, closes, i - RSI_PERIOD + 1, i)
         IN  IF loss = 0
             THEN IF gain = 0 THEN NaN ELSE Number(100, 1)
             ELSE Number(100 * gain, gain + loss)

\* Lines 27-41.
CalculateRsi(closes) ==
    IF Len(closes) < RSI_PERIOD + 1
    THEN [i \in 1..Len(closes) |-> Number(50, 1)]
    ELSE [i \in 1..Len(closes) |-> RsiAt(closes, i)]

\* Series of n closes, flat at 100.00 but for the last MaxMoves ones.
RsiCloses == {100000, 100100, 100300}
RsiLengths == {RSI_PERIOD, MIN_CONFIRMATION_BARS, MIN_BARS}

RsiSeries ==
    {[i \in 1..n |-> IF i <= n - MaxMoves THEN 100000 ELSE tail[i - (n - MaxMoves)]] :
        n \in RsiLengths, tail \in [1..MaxMoves -> RsiCloses]}

RsiInit ==
    /\ fnPc = "input"
    /\ fnIn \in RsiSeries
    /\ fnOut = <<>>
    /\ OthersIdle

RsiCall ==
    /\ fnPc = "input"
    /\ fnOut' = CalculateRsi(fnIn)
    /\ fnPc' = "done"
    /\ UNCHANGED fnIn
    /\ UNCHANGED <<riskVars, scanVars, botVars, sendVars, trackerVars, fetcherVars, batchVars, cacheVars>>

RsiNext == RsiCall

RsiSpec == RsiInit /\ [][RsiNext]_vars

\* ------------------------------------------------------------- PatternSpec
\* PatternDetector.detect_patterns (pattern_detector.py 11-89) and its eight
\* predicates (91-226) on a frame of candles [Open, High, Low, Close], in
\* ticks.  x > y * 0.6 is written x * 10 > y * 6.
Body(c) == Abs(c.Close - c.Open)
Range(c) == c.High - c.Low
Max(a, b) == IF a >= b THEN a ELSE b
Min(a, b) == IF a <= b THEN a ELSE b
HighShadow(c) == c.High - Max(c.Close, c.Open)
LowShadow(c) == Min(c.Close, c.Open) - c.Low

\* candles.iloc[-k].
Iloc(candles, k) == candles[Len(candles) - k + 1]

\* Lines 102-104 and 119-121 with >= in the place of >.
StrongBodyOrEqual(c) == Body(c) * 10 >= Range(c) * 6

\* Lines 102-104 and 119-121: curr_body > curr_range * 0.6.
StrongBody(c) == Body(c) * 10 > Range(c) * 6

\* Lines 91-106.
IsBullishEngulfing(candles) ==
    /\ Len(candles) >= 2
    /\ LET prev == Iloc(candles, 2)
           curr == Iloc(candles, 1)
       IN  /\ prev.Close < prev.Open
           /\ curr.Close > curr.Open
           /\ curr.Open <= prev.Close /\ curr.Close >= prev.Open
           /\ StrongBody(curr)

\* Lines 108-123.
IsBearishEngulfing(candles) ==
    /\ Len(candles) >= 2
    /\ LET prev == Iloc(candles, 2)
           curr == Iloc(candles, 1)
       IN  /\ prev.Close > prev.Open
           /\ curr.Close < curr.Open
           /\ curr.Open >= prev.Close /\ curr.Close <= prev.Open
           /\ StrongBody(curr)

\* Lines 125-139.
IsHammer(candles) ==
    /\ Len(candles) >= 1
    /\ LET candle == Iloc(candles, 1)
       IN  /\ Body(candle) * 10 < Range(candle) * 3
           /\ LowShadow(candle) > Body(candle) * 2
           /\ HighShadow(candle) < Body(candle)

\* Lines 141-155.
IsShootingStar(candles) ==
    /\ Len(candles) >= 1
    /\ LET candle == Iloc(candles, 1)
       IN  /\ Body(candle) * 10 < Range(candle) * 3
           /\ HighShadow(candle) > Body(candle) * 2
           /\ LowShadow(candle) < Body(candle)

\* Lines 157-175.
IsMorningStar(candles) ==
    /\ Len(candles) >= 3
    /\ LET first == Iloc(candles, 3)
           second == Iloc(candles, 2)
           third == Iloc(candles, 1)
       IN  /\ first.Close < first.Open
           /\ Body(second) * 10 < Body(first) * 3
           /\ third.Close > third.Open
           /\ Body(third) * 10 > Body(first) * 5
           /\ third.Close * 2 > first.Open + first.Close

\* Lines 177-195.
IsEveningStar(candles) ==
    /\ Len(candles) >= 3
    /\ LET first == Iloc(candles, 3)
           second == Iloc(candles, 2)
           third == Iloc(candles, 1)
       IN  /\ first.Close > first.Open
           /\ Body(second) * 10 < Body(first) * 3
           /\ third.Close < third.Open
           /\ Body(third) * 10 > Body(first) * 5
           /\ third.Close * 2 < first.Open + first.Close

\* Lines 197-211.
IsBullishPinBar(candles) ==
    /\ Len(candles) >= 1
    /\ LET candle == Iloc(candles, 1)
       IN  /\ LowShadow(candle) * 10 > Range(candle) * 6
           /\ HighShadow(candle) * 10 < Range(candle) * 2
           /\ candle.Close >= candle.Open

\* Lines 213-227.
IsBearishPinBar(candles) ==
    /\ Len(candles) >= 1
    /\ LET candle == Iloc(candles, 1)
       IN  /\ HighShadow(candle) * 10 > Range(candle) * 6
           /\ LowShadow(candle) * 10 < Range(candle) * 2
           /\ candle.Close <= candle.Open

\* Lines 25-81: the tests of detect_patterns, by the name they append.
PredicateHolds(name, candles) ==
    CASE name = "Bullish Engulfing" -> IsBullishEngulfing(candles)
      [] name = "Bearish Engulfing" -> IsBearishEngulfing(candles)
      [] name = "Hammer" -> IsHammer(candles)
      [] name = "Shooting Star" -> IsShootingStar(candles)
      [] name = "Morning Star" -> IsMorningStar(candles)
      [] name = "Evening Star" -> IsEveningStar(candles)
      [] name = "Bullish Pin Bar" -> IsBullishPinBar(candles)
      [] name = "Bearish Pin Bar" -> IsBearishPinBar(candles)

\* df.tail(5).
Tail5(frame) ==
    IF Len(frame) <= 5 THEN frame ELSE SubSeq(frame, Len(frame) - 4, Len(frame))

\* Lines 16-89.
DetectPatternsOn(frame) ==
    IF Len(frame) < 5
    THEN <<>>
    ELSE DetectPatterns({name \in PatternNames : PredicateHolds(name, Tail5(frame))})

\* Candles over a few ticks, with Low <= Open, Close <= High.
PriceTicks == {0, 1, 3, 12, 14, 15}

Candles ==
    {c \in [Open : PriceTicks, High : PriceTicks, Low : PriceTicks, Close : PriceTicks] :
        c.Low <= Min(c.Open, c.Close) /\ c.High >= Max(c.Open, c.Close)}

Candle(o, h, l, c) == [Open |-> o, High |-> h, Low |-> l, Close |-> c]

\* The candles before the last one: a large falling, a large rising and a
\* flat third-last one; a small falling, a small rising, a large rising and a
\* large falling second-last one.
FirstCandles == {Candle(14, 14, 1, 1), Candle(1, 14, 1, 14), Candle(3, 3, 3, 3)}
SecondCandles == {Candle(3, 3, 1, 1), Candle(1, 3, 1, 3), Candle(1, 14, 1, 14),
                  Candle(14, 14, 1, 1)}

\* Frames of 4 and of 5 bars.
PatternFrames ==
    {[i \in 1..n |-> IF i = n THEN curr
                     ELSE IF i = n - 1 THEN second
                     ELSE IF i = n - 2 THEN first
                     ELSE Candle(3, 3, 3, 3)] :
        n \in {4, 5}, first \in FirstCandles, second \in SecondCandles, curr \in Candles}

PatternInit ==
    /\ fnPc = "input"
    /\ fnIn \in PatternFrames
    /\ fnOut = <<>>
    /\ OthersIdle

PatternCall ==
    /\ fnPc = "input"
    /\ fnOut' = DetectPatternsOn(fnIn)
    /\ fnPc' = "done"
    /\ UNCHANGED fnIn
    /\ UNCHANGED <<riskVars, scanVars, botVars, sendVars, trackerVars, fetcherVars, batchVars, cacheVars>>

PatternNext == PatternCall

PatternSpec == PatternInit /\ [][PatternNext]_vars

\* ---------------------------------------------------------------- SendSpec
\* telegram_bot.py 228-231 and 356-358: the Signals of one scan are handed to
\* send_signal one after the other.

\* The keys of the Signal dict (signal_scanner.py 118-138) that decide what
\* send_signal and the chart generator do. The dict has target_1 and target_2
\* and no key named target.
SentSignal(symbol, signal_type) ==
    [symbol |-> symbol, signal_type |-> signal_type]

\* What scan_all_stocks can return when it found something: at most one Signal
\* per stock, in the order the futures completed.
Batches ==
    {q \in UNION {[1..n -> [symbol : Stocks, signal_type : SignalTypes]] :
                    n \in 1..NumStocks} :
        \A i, j \in 1..Len(q) : i # j => q[i].symbol # q[j].symbol}

NoChart == "None"
ChartFile == "charts/symbol_type_timestamp.png"

\* What can happen while the figure is drawn and saved.
RenderOutcomes == {"saved", "raised"}

\* chart_generator.py 37-170. signal_data.get('target') of line 86 is None
\* for a dict without that key, the format of line 131 then raises, and the
\* handler of lines 167-170 returns None, as it does for any other exception.
ChartGeneratorResult(signal, drawn) ==
    IF "target" \notin DOMAIN signal
    THEN NoChart
    ELSE IF drawn = "saved" THEN ChartFile ELSE NoChart

\* signal_scanner.py 209-225.
GenerateSignalChart(enabled, signal, drawn) ==
    IF ~enabled THEN NoChart ELSE ChartGeneratorResult(signal, drawn)

\* Lines 314-328 with the test of 314 dropped.
SendKindAlwaysPhoto(chart_path) == "photo"

\* Lines 314-328: send_photo for a chart path, send_message otherwise.
SendKind(chart_path) == IF chart_path # NoChart THEN "photo" ELSE "text"

\* Lines 285 and 332-334: the try covers the whole body, and the handler
\* logs the exception of a failed send_photo or send_message and returns.
SendSignalRaises(delivered) == FALSE

SendInit ==
    /\ sendPc = "sending"
    /\ batch \in Batches
    /\ sendIdx = 0
    /\ chart_enabled \in BOOLEAN
    /\ attempts = <<>>
    /\ escaped = FALSE
    /\ RiskIdle
    /\ ScanIdle
    /\ TrackerInit
    /\ FetcherInit
    /\ BatchIdle
    /\ CacheIdle
    /\ FnIdle
    /\ BotIdle

\* telegram_bot.py 281-334, once per turn of the caller's for loop.
SendSignal ==
    /\ sendPc = "sending"
    /\ sendIdx < Len(batch)
    /\ \E drawn \in RenderOutcomes, delivered \in BOOLEAN :
         LET signal == batch[sendIdx + 1]
             chart_path == GenerateSignalChart(chart_enabled, signal, drawn)
         IN  /\ attempts' = Append(attempts,
                                   [symbol |-> signal.symbol,
                                    chart_path |-> chart_path,
                                    kind |-> SendKind(chart_path),
                                    delivered |-> delivered])
             /\ escaped' = SendSignalRaises(delivered)
             /\ sendPc' = IF SendSignalRaises(delivered) THEN "raised"
                          ELSE "sending"
    /\ sendIdx' = sendIdx + 1
    /\ UNCHANGED <<batch, chart_enabled>>
    /\ UNCHANGED <<riskVars, scanVars, botVars, trackerVars, fetcherVars, batchVars,
                   cacheVars, fnVars>>

\* The for loop of 230 or 357 has no Signal left.
SendLoopEnd ==
    /\ sendPc = "sending"
    /\ sendIdx = Len(batch)
    /\ sendPc' = "done"
    /\ UNCHANGED <<batch, sendIdx, chart_enabled, attempts, escaped>>
    /\ UNCHANGED <<riskVars, scanVars, botVars, trackerVars, fetcherVars, batchVars,
                   cacheVars, fnVars>>

SendNext == SendSignal \/ SendLoopEnd

SendSpec == SendInit /\ [][SendNext]_vars

\* ------------------------------------------------------- LiquidityGrabSpec
\* ict_analyzer.py 125-177, on a frame of candles. Prices are integers; the
\* factors 0.998, 1.002 and 1.5 are applied by cross-multiplication.

\* lookback['High'].max() and lookback['Low'].min().
MaxHigh(bars) ==
    CHOOSE h \in {bars[i].High : i \in DOMAIN bars} :
        \A i \in DOMAIN bars : bars[i].High <= h

MinLow(bars) ==
    CHOOSE l \in {bars[i].Low : i \in DOMAIN bars} :
        \A i \in DOMAIN bars : bars[i].Low >= l

\* Line 139: df.tail(12).head(10).
Lookback(frame) == SubSeq(frame, Len(frame) - 11, Len(frame) - 2)

\* Lines 148-154.
BullishGrab(last_candle, swing_low) ==
    /\ last_candle.Low * 1000 < swing_low * 998
    /\ last_candle.Close > last_candle.Open
    /\ LET wick_size == last_candle.Close - last_candle.Low
           body_size == Abs(last_candle.Close - last_candle.Open)
       IN  wick_size * 10 > body_size * 15

\* Lines 163-169.
BearishGrab(last_candle, swing_high) ==
    /\ last_candle.High * 1000 > swing_high * 1002
    /\ last_candle.Close < last_candle.Open
    /\ LET wick_size == last_candle.High - last_candle.Close
           body_size == Abs(last_candle.Close - last_candle.Open)
       IN  wick_size * 10 > body_size * 15

\* Lines 125-177.
DetectLiquidityGrabs(frame) ==
    IF Len(frame) < 15
    THEN <<>>
    ELSE LET lookback == Lookback(frame)
             swing_high == MaxHigh(lookback)
             swing_low == MinLow(lookback)
             last_candle == Iloc(frame, 1)
         IN  (IF BullishGrab(last_candle, swing_low)
              THEN <<[type |-> "BULLISH", grabbed_level |-> swing_low,
                      reversal_price |-> last_candle.Close,
                      strength |-> "Strong"]>>
              ELSE <<>>)
             \o (IF BearishGrab(last_candle, swing_high)
                 THEN <<[type |-> "BEARISH", grabbed_level |-> swing_high,
                         reversal_price |-> last_candle.Close,
                         strength |-> "Strong"]>>
                 ELSE <<>>)

\* The frames: every bar is the range candle but one spike bar and the last
\* bar. The range candle spans 1000..1500, so that the swing low times 0.998
\* is 998 and the swing high times 1.002 is 1503.
RangeCandle == Candle(1200, 1500, 1000, 1200)
\* A bar that reaches further down or further up than the range.
SpikeCandles == {RangeCandle, Candle(1200, 1500, 500, 1200), Candle(1200, 2000, 1000, 1200)}
\* The place of the spike bar, counted from the end: the first bar before the
\* lookback, the first and the last bar of the lookback, the bar after it.
SpikePlaces == {13, 12, 3, 2}
GrabLengths == {14, 15, 16}

\* Last bars whose low is at, just under or just over 998: the open is w
\* above the low and the body is 4, 0 or -4.
LowSweepCandles ==
    {Candle(l + w, l + w + 5, l, l + w + d) :
        l \in {997, 998, 999}, w \in {4, 6, 7, 10}, d \in {-4, 0, 4}}

\* Last bars whose high is at, just over or just under 1503.
HighSweepCandles ==
    {Candle(h - w, h, h - w - 5, h - w + d) :
        h \in {1502, 1503, 1504}, w \in {4, 6, 7, 10}, d \in {-4, 0, 4}}

GrabFrames ==
    {[i \in 1..n |-> IF i = n THEN last
                     ELSE IF i = n - place + 1 THEN spike
                     ELSE RangeCandle] :
        n \in GrabLengths, place \in SpikePlaces, spike \in SpikeCandles,
        last \in LowSweepCandles \cup HighSweepCandles}

LiquidityGrabInit ==
    /\ fnPc = "input"
    /\ fnIn \in GrabFrames
    /\ fnOut = <<>>
    /\ OthersIdle

LiquidityGrabCall ==
    /\ fnPc = "input"
    /\ fnOut' = DetectLiquidityGrabs(fnIn)
    /\ fnPc' = "done"
    /\ UNCHANGED fnIn
    /\ UNCHANGED <<riskVars, scanVars, botVars, sendVars, trackerVars, fetcherVars, batchVars, cacheVars>>

LiquidityGrabNext == LiquidityGrabCall

LiquidityGrabSpec == LiquidityGrabInit /\ [][LiquidityGrabNext]_vars

\* ---------------------------------------------------------- OrderBlockSpec
\* ict_analyzer.py 44-123, on a frame of candles. Bar i of the code (counted
\* from 0) is frame[i + 1]. The factors 0.02, 0.03, 0.99 and 1.01 are applied
\* by cross-multiplication.

\* next_candles['Close'].max() and .min().
MaxClose(bars) ==
    CHOOSE c \in {bars[j].Close : j \in DOMAIN bars} :
        \A j \in DOMAIN bars : bars[j].Close <= c

MinClose(bars) ==
    CHOOSE c \in {bars[j].Close : j \in DOMAIN bars} :
        \A j \in DOMAIN bars : bars[j].Close >= c

\* Lines 54 and 90: df.iloc[i+1:i+6].
NextCandles(frame, i) == SubSeq(frame, i + 1, Min(i + 5, Len(frame)))

\* Lines 61 and 97.
BullishCount(bars) == Cardinality({j \in DOMAIN bars : bars[j].Close > bars[j].Open})
BearishCount(bars) == Cardinality({j \in DOMAIN bars : bars[j].Close < bars[j].Open})

\* Lines 66 and 102 with >= in the place of >.
SignificantMoveOrEqual(move, close) == move * 100 >= close * 2

\* Lines 66 and 102: price_move > 0.02, price_move being move / close.
SignificantMove(move, close) == move * 100 > close * 2

\* Lines 75-76 and 111-112.
NearOb(current_price, ob_low, ob_high) ==
    /\ current_price * 100 >= ob_low * 99
    /\ current_price * 100 <= ob_high * 101

\* Lines 79-85 and 115-121.
OrderBlock(type, current, move) ==
    [type |-> type, price |-> current.Close, high |-> current.High,
     low |-> current.Low,
     strength |-> IF move * 100 > current.Close * 3 THEN "Strong" ELSE "Medium"]

\* Lines 53-85: the body of the first loop for bar i.
BullishBlockAt(frame, i) ==
    LET current == frame[i]
        next_candles == NextCandles(frame, i)
        move == MaxClose(next_candles) - current.Close
    IN  IF /\ current.Close < current.Open
           /\ BullishCount(next_candles) >= 3
           /\ SignificantMove(move, current.Close)
           /\ NearOb(Iloc(frame, 1).Close, current.Low, current.High)
        THEN <<OrderBlock("BULLISH", current, move)>>
        ELSE <<>>

\* Lines 89-121: the body of the second loop for bar i.
BearishBlockAt(frame, i) ==
    LET current == frame[i]
        next_candles == NextCandles(frame, i)
        move == current.Close - MinClose(next_candles)
    IN  IF /\ current.Close > current.Open
           /\ BearishCount(next_candles) >= 3
           /\ SignificantMove(move, current.Close)
           /\ NearOb(Iloc(frame, 1).Close, current.Low, current.High)
        THEN <<OrderBlock("BEARISH", current, move)>>
        ELSE <<>>

\* Lines 52 and 88: for i in range(10, len(df) - 5).
RECURSIVE BlocksFrom(_, _, _)
BlocksFrom(frame, i, type) ==
    IF i > Len(frame) - 5
    THEN <<>>
    ELSE (IF type = "BULLISH" THEN BullishBlockAt(frame, i)
          ELSE BearishBlockAt(frame, i))
         \o BlocksFrom(frame, i + 1, type)

\* Lines 44-123.
DetectOrderBlocks(frame) ==
    BlocksFrom(frame, 11, "BULLISH") \o BlocksFrom(frame, 11, "BEARISH")

\* The frames: bars with no body, but for one bar that closes at 1000, the
\* five bars after it and the last bar.
BodilessCandle == Candle(1000, 1003, 997, 1000)
BlockCandles == {Candle(1010, 1012, 998, 1000), Candle(990, 1002, 988, 1000)}
\* The place of that bar, as the code counts: 9 is before the range of the
\* loops, and 11 is inside it only for a frame of more than 16 bars.
BlockPlaces == {9, 10, 11}
BlockLengths == {16, 17}
\* The first of the five bars closes Move away from 1000, the others 5 away;
\* Together of them have a body in the direction of the move.
Moves == {19, 20, 21, 31}
Together == {2, 3}

\* The j-th bar after the block bar: dir is 1 for a move up, -1 for one down.
FollowingCandle(j, dir, move, together) ==
    LET close == 1000 + dir * (IF j = 1 THEN move ELSE 5)
        open == IF j <= together THEN close - dir * 3 ELSE close + dir * 3
    IN  Candle(open, Max(open, close) + 1, Min(open, close) - 1, close)

\* The last bar: its close is the current price, inside or outside the band
\* around the block bar, and its body rises or falls.
LastCandles ==
    {Candle(close - body, close + 4, close - 4, close) :
        close \in {980, 1005, 1030}, body \in {-3, 3}}

BlockFrames ==
    {[k \in 1..n |-> IF k = n THEN last
                     ELSE IF k = place + 1 THEN block
                     ELSE IF k > place + 1 /\ k <= place + 6
                          THEN FollowingCandle(k - place - 1, dir, move, together)
                          ELSE BodilessCandle] :
        n \in BlockLengths, place \in BlockPlaces, block \in BlockCandles,
        dir \in {-1, 1}, move \in Moves, together \in Together,
        last \in LastCandles}

OrderBlockInit ==
    /\ fnPc = "input"
    /\ fnIn \in BlockFrames
    /\ fnOut = <<>>
    /\ OthersIdle

OrderBlockCall ==
    /\ fnPc = "input"
    /\ fnOut' = DetectOrderBlocks(fnIn)
    /\ fnPc' = "done"
    /\ UNCHANGED fnIn
    /\ UNCHANGED <<riskVars, scanVars, botVars, sendVars, trackerVars, fetcherVars, batchVars, cacheVars>>

OrderBlockNext == OrderBlockCall

OrderBlockSpec == OrderBlockInit /\ [][OrderBlockNext]_vars

\* -------------------------------------------------------- BreakRetestSpec
\* ict_analyzer.py 179-251, on a frame of candles. A key level is kept as
\* the sum of its three values (three times the mean), and the factors
\* 1.005, 0.995, 1.01 and 0.99 are applied by cross-multiplication.

\* Line 190: df.tail(20).head(15).
KeyLookback(frame) == SubSeq(frame, Len(frame) - 19, Len(frame) - 5)

\* The sequence without its element at place i.
DropAt(seq, i) == SubSeq(seq, 1, i - 1) \o SubSeq(seq, i + 1, Len(seq))

\* Line 198: highs.nlargest(k), summed.
RECURSIVE SumLargest(_, _)
SumLargest(values, k) ==
    IF k = 0 \/ values = <<>>
    THEN 0
    ELSE LET i == CHOOSE i \in DOMAIN values :
                      \A j \in DOMAIN values : values[j] <= values[i]
         IN  values[i] + SumLargest(DropAt(values, i), k - 1)

\* Line 199: lows.nsmallest(k), summed.
RECURSIVE SumSmallest(_, _)
SumSmallest(values, k) ==
    IF k = 0 \/ values = <<>>
    THEN 0
    ELSE LET i == CHOOSE i \in DOMAIN values :
                      \A j \in DOMAIN values : values[j] >= values[i]
         IN  values[i] + SumSmallest(DropAt(values, i), k - 1)

\* Line 211 with >= in the place of >.
BrokeAboveOrTouched(price, support3) == price * 3000 >= support3 * 1005

\* Line 211: prev_prices[-3] > key_support * 1.005.
BrokeAbove(price, support3) == price * 3000 > support3 * 1005

\* Lines 208-220, key_support being support3 / 3.
BullishBreakRetest(frame, support3) ==
    /\ Iloc(frame, 4).Close * 3 < support3
    /\ BrokeAbove(Iloc(frame, 3).Close, support3)
    /\ Iloc(frame, 2).Close * 3000 >= support3 * 995
    /\ Iloc(frame, 2).Close * 300 <= support3 * 101
    /\ Iloc(frame, 1).Close > Iloc(frame, 2).Close

\* Lines 231-243, key_resistance being resistance3 / 3.
BearishBreakRetest(frame, resistance3) ==
    /\ Iloc(frame, 4).Close * 3 > resistance3
    /\ Iloc(frame, 3).Close * 3000 < resistance3 * 995
    /\ Iloc(frame, 2).Close * 300 >= resistance3 * 99
    /\ Iloc(frame, 2).Close * 3000 <= resistance3 * 1005
    /\ Iloc(frame, 1).Close < Iloc(frame, 2).Close

\* Lines 179-251. The level of an entry is written as three times its value.
DetectBreakAndRetest(frame) ==
    IF Len(frame) < 20
    THEN <<>>
    ELSE LET lookback == KeyLookback(frame)
             resistance3 == SumLargest([i \in DOMAIN lookback |-> lookback[i].High], 3)
             support3 == SumSmallest([i \in DOMAIN lookback |-> lookback[i].Low], 3)
         IN  (IF BullishBreakRetest(frame, support3)
              THEN <<[type |-> "BULLISH", level3 |-> support3,
                      current_price |-> Iloc(frame, 1).Close,
                      strength |-> "Strong"]>>
              ELSE <<>>)
             \o (IF BearishBreakRetest(frame, resistance3)
                 THEN <<[type |-> "BEARISH", level3 |-> resistance3,
                         current_price |-> Iloc(frame, 1).Close,
                         strength |-> "Strong"]>>
                 ELSE <<>>)

\* The frames: every bar spans 1000..2000 but one bar and the last four
\* bars, so that key_support is 1000 and key_resistance 2000, or 900 and
\* 2100 when the one bar reaches 700 or 2300 inside the lookback.
LevelCandle == Candle(1500, 2000, 1000, 1500)
DeepCandles == {LevelCandle, Candle(1500, 2000, 700, 1500), Candle(1500, 2300, 1000, 1500)}
\* The place of the one bar, counted from the end: the bar before the
\* lookback, its first bar, its last bar, the bar after it.
DeepPlaces == {21, 20, 6, 5}
RetestLengths == {19, 20, 21}

\* The last four closes around a support of 900 or 1000 and around a
\* resistance of 2000 or 2100: at and next to each threshold of the code.
RetestCloses ==
    {<<900 + d4, 904 + d3, c2, c2 + d1>> :
        d4 \in {-1, 0}, d3 \in {0, 1}, c2 \in {895, 896, 909, 910}, d1 \in {-1, 1}}
    \cup {<<1000 + d4, 1005 + d3, c2, c2 + d1>> :
        d4 \in {-1, 0}, d3 \in {0, 1}, c2 \in {994, 995, 1010, 1011}, d1 \in {-1, 1}}
    \cup {<<2000 + d4, 1989 + d3, c2, c2 + d1>> :
        d4 \in {0, 1}, d3 \in {0, 1}, c2 \in {1979, 1980, 2010, 2011}, d1 \in {-1, 1}}
    \cup {<<2100 + d4, 2089 + d3, c2, c2 + d1>> :
        d4 \in {0, 1}, d3 \in {0, 1}, c2 \in {2078, 2079, 2110, 2111}, d1 \in {-1, 1}}

RetestFrames ==
    {[k \in 1..n |-> IF k >= n - 3
                     THEN LET c == closes[k - n + 4] IN Candle(c, c + 1, c - 1, c)
                     ELSE IF k = n - place + 1 THEN deep
                     ELSE LevelCandle] :
        n \in RetestLengths, place \in DeepPlaces, deep \in DeepCandles,
        closes \in RetestCloses}

BreakRetestInit ==
    /\ fnPc = "input"
    /\ fnIn \in RetestFrames
    /\ fnOut = <<>>
    /\ OthersIdle

BreakRetestCall ==
    /\ fnPc = "input"
    /\ fnOut' = DetectBreakAndRetest(fnIn)
    /\ fnPc' = "done"
    /\ UNCHANGED fnIn
    /\ UNCHANGED <<riskVars, scanVars, botVars, sendVars, trackerVars, fetcherVars, batchVars, cacheVars>>

BreakRetestNext == BreakRetestCall

BreakRetestSpec == BreakRetestInit /\ [][BreakRetestNext]_vars

\* ---------------------------------------------------------- EngulfingSpec
\* detect_patterns on frames whose second-last bar has a body the last bar
\* can engulf.

\* Second-last bars: falling and rising bodies between 3 and 12, a falling
\* one between 1 and 14, and a bar without a body.
EngulfedCandles ==
    {Candle(12, 12, 3, 3), Candle(3, 12, 3, 12), Candle(14, 14, 1, 1),
     Candle(3, 3, 3, 3)}

EngulfingFrames ==
    {[i \in 1..5 |-> IF i = 5 THEN curr
                     ELSE IF i = 4 THEN prev
                     ELSE Candle(3, 3, 3, 3)] :
        prev \in EngulfedCandles, curr \in Candles}

EngulfingInit ==
    /\ fnPc = "input"
    /\ fnIn \in EngulfingFrames
    /\ fnOut = <<>>
    /\ OthersIdle

EngulfingCall ==
    /\ fnPc = "input"
    /\ fnOut' = DetectPatternsOn(fnIn)
    /\ fnPc' = "done"
    /\ UNCHANGED fnIn
    /\ UNCHANGED <<riskVars, scanVars, botVars, sendVars, trackerVars, fetcherVars, batchVars, cacheVars>>

EngulfingNext == EngulfingCall

EngulfingSpec == EngulfingInit /\ [][EngulfingNext]_vars

\* ------------------------------------------------------------- VolumeSpec
\* IndicatorAnalyzer.check_volume_confirmation (indicators.py 44-64) on the
\* volumes of a series. The ratio is kept as the fraction num / den.

\* Line 53: df['Volume'].iloc[-21:-1], the slice starting at the first bar
\* when the series has fewer than 21 bars.
VolumeWindow(volumes) ==
    SubSeq(volumes, Max(1, Len(volumes) - 20), Len(volumes) - 1)

\* Lines 49-64: (has_spike, volume_ratio).
CheckVolumeConfirmation(volumes) ==
    IF Len(volumes) < MIN_CONFIRMATION_BARS
    THEN [has_spike |-> FALSE, volume_ratio |-> [num |-> 1, den |-> 1]]
    ELSE LET window == VolumeWindow(volumes)
             total == SumSeq(window)
             current_volume == Iloc(volumes, 1)
             volume_ratio == IF total > 0
                             THEN [num |-> current_volume * Len(window), den |-> total]
                             ELSE [num |-> 1, den |-> 1]
         IN  [has_spike |-> volume_ratio.num * 10
                                >= VOLUME_SPIKE_MULTIPLIER * volume_ratio.den,
              volume_ratio |-> volume_ratio]

\* Series of volumes: every bar trades the base volume but the bars 22, 21
\* and 2 places from the end, where they exist, and the last bar.
VolumeLengths == {19, 20, 21, 22}
BaseVolumes == {0, 100}
OtherVolumes == {100, 300}
LastVolumes == {0, 149, 150, 151, 165}

VolumeSeries ==
    {[k \in 1..n |-> IF k = n THEN last
                     ELSE IF k = n - 1 THEN near
                     ELSE IF k = n - 20 THEN first
                     ELSE IF k = n - 21 THEN before
                     ELSE base] :
        n \in VolumeLengths, base \in BaseVolumes, near \in OtherVolumes,
        first \in OtherVolumes, before \in OtherVolumes, last \in LastVolumes}

VolumeInit ==
    /\ fnPc = "input"
    /\ fnIn \in VolumeSeries
    /\ fnOut = <<>>
    /\ OthersIdle

VolumeCall ==
    /\ fnPc = "input"
    /\ fnOut' = CheckVolumeConfirmation(fnIn)
    /\ fnPc' = "done"
    /\ UNCHANGED fnIn
    /\ UNCHANGED <<riskVars, scanVars, botVars, sendVars, trackerVars, fetcherVars, batchVars, cacheVars>>

VolumeNext == VolumeCall

VolumeSpec == VolumeInit /\ [][VolumeNext]_vars

\* ------------------------------------------------------- ConfirmationSpec
\* IndicatorAnalyzer.get_confirmation (indicators.py 67-115) on the closes
\* and volumes of a series. The result holds current_rsi and the ratio as
\* computed; the dict's rsi_value and volume_ratio are their roundings.

\* rsi_value of line 75, before line 86 assigns it.
NoRsi == [nan |-> TRUE, num |-> 0, den |-> 1, none |-> TRUE]

\* Line 91 with <= in the place of <.
RsiBelowOrEqual(rsi, bound) == ~rsi.nan /\ rsi.num <= bound * rsi.den

\* Line 91: current_rsi < bound, false for NaN.
RsiBelow(rsi, bound) == ~rsi.nan /\ rsi.num < bound * rsi.den

\* Line 95: current_rsi > bound, false for NaN.
RsiAbove(rsi, bound) == ~rsi.nan /\ rsi.num > bound * rsi.den

\* Lines 89-95.
RsiConfirmed(rsi, signal_type) ==
    IF signal_type \in {"BUY", "BULLISH"}
    THEN RsiBelow(rsi, RSI_OVERSOLD + 10)
    ELSE IF signal_type \in {"SELL", "BEARISH"}
    THEN RsiAbove(rsi, RSI_OVERBOUGHT - 10)
    ELSE FALSE

\* Lines 103-113 with the default of line 77 in the place of 'Weak'.
StrengthOrDefault(rsi_confirmed, volume_confirmed) ==
    IF rsi_confirmed /\ volume_confirmed THEN "Strong"
    ELSE IF rsi_confirmed \/ volume_confirmed THEN "Medium"
    ELSE "None"

\* Lines 103-113.
StrengthOf(rsi_confirmed, volume_confirmed) ==
    IF rsi_confirmed /\ volume_confirmed THEN "Strong"
    ELSE IF rsi_confirmed \/ volume_confirmed THEN "Medium"
    ELSE "Weak"

\* Lines 67-115.
GetConfirmationOn(closes, volumes, signal_type) ==
    IF Len(closes) < MIN_CONFIRMATION_BARS
    THEN [rsi_confirmed |-> FALSE, volume_confirmed |-> FALSE,
          current_rsi |-> NoRsi, strength |-> "None"]
    ELSE LET current_rsi == Iloc(CalculateRsi(closes), 1)
             rsi_confirmed == RsiConfirmed(current_rsi, signal_type)
             volume_confirmed == CheckVolumeConfirmation(volumes).has_spike
         IN  [rsi_confirmed |-> rsi_confirmed,
              volume_confirmed |-> volume_confirmed,
              current_rsi |-> [nan |-> current_rsi.nan, num |-> current_rsi.num,
                               den |-> current_rsi.den, none |-> FALSE],
              strength |-> StrengthOf(rsi_confirmed, volume_confirmed)]

\* Series of 19, 20 or 21 bars: the closes are flat at 100.00 but for the
\* last three changes, and every volume is 100 but the last.
ConfirmationLengths == {19, 20, 21}
CloseChanges == {-300, -200, 0, 200, 300}
SpikeVolumes == {100, 150}

ConfirmationInputs ==
    {[closes |-> [k \in 1..n |->
                     100000 + (IF k >= n - 2 THEN d1 ELSE 0)
                            + (IF k >= n - 1 THEN d2 ELSE 0)
                            + (IF k >= n THEN d3 ELSE 0)],
      volumes |-> [k \in 1..n |-> IF k = n THEN last ELSE 100],
      signal_type |-> t] :
        n \in ConfirmationLengths, d1 \in CloseChanges, d2 \in CloseChanges,
        d3 \in CloseChanges, last \in SpikeVolumes, t \in SignalTypes}

ConfirmationInit ==
    /\ fnPc = "input"
    /\ fnIn \in ConfirmationInputs
    /\ fnOut = <<>>
    /\ OthersIdle

ConfirmationCall ==
    /\ fnPc = "input"
    /\ fnOut' = GetConfirmationOn(fnIn.closes, fnIn.volumes, fnIn.signal_type)
    /\ fnPc' = "done"
    /\ UNCHANGED fnIn
    /\ UNCHANGED <<riskVars, scanVars, botVars, sendVars, trackerVars, fetcherVars, batchVars, cacheVars>>

ConfirmationNext == ConfirmationCall

ConfirmationSpec == ConfirmationInit /\ [][ConfirmationNext]_vars

\* -------------------------------------------------------- ShortSeriesSpec
\* The five analyzers called on series around their minimum lengths.

\* ict_analyzer.py 16-42 without the test of line 27.
AnalyzeUnguarded(frame) ==
    [order_blocks |-> DetectOrderBlocks(frame),
     liquidity_grabs |-> DetectLiquidityGrabs(frame),
     break_retest |-> DetectBreakAndRetest(frame)]

\* ict_analyzer.py 16-42.
Analyze(frame) ==
    IF Len(frame) < 20
    THEN [order_blocks |-> <<>>, liquidity_grabs |-> <<>>, break_retest |-> <<>>]
    ELSE [order_blocks |-> DetectOrderBlocks(frame),
          liquidity_grabs |-> DetectLiquidityGrabs(frame),
          break_retest |-> DetectBreakAndRetest(frame)]

\* indicators.py 135-151: the swing highs (high = TRUE) or swing lows of the
\* bars recent[i..], in the order of the loop; bar i of the code is
\* recent[i + 1].
RECURSIVE Swings(_, _, _)
Swings(recent, i, high) ==
    IF i > Len(recent) - 2
    THEN <<>>
    ELSE LET v(k) == IF high THEN recent[k].High ELSE recent[k].Low
             swing == IF high
                      THEN /\ v(i) > v(i - 1) /\ v(i) > v(i - 2)
                           /\ v(i) > v(i + 1) /\ v(i) > v(i + 2)
                      ELSE /\ v(i) < v(i - 1) /\ v(i) < v(i - 2)
                           /\ v(i) < v(i + 1) /\ v(i) < v(i + 2)
         IN  (IF swing THEN <<v(i)>> ELSE <<>>) \o Swings(recent, i + 1, high)

\* indicators.py 118-157: (support_levels, resistance_levels).
CalculateSupportResistance(frame) ==
    LET lookback == Min(SR_LOOKBACK, Len(frame))
        recent_data == SubSeq(frame, Len(frame) - lookback + 1, Len(frame))
    IN  [support |-> ClusterLevels(Swings(recent_data, 3, FALSE)).means,
         resistance |-> ClusterLevels(Swings(recent_data, 3, TRUE)).means]

\* The closes of a frame.
Closes(frame) == [k \in DOMAIN frame |-> frame[k].Close]

ShortLengths == {0, 1, 4, 5, 14, 15, 19, 20}
\* Last bars: a bar like the others, one that sweeps the lows and closes up
\* with a long wick (a liquidity grab, a Hammer and a Bullish Pin Bar where
\* the series is long enough), and a rise of 3 after a flat series.
ShortLastCandles ==
    {Candle(1200, 1500, 1000, 1200), Candle(1000, 1010, 800, 1005),
     Candle(1200, 1500, 1000, 1203)}
\* The bar three places from the end: like the others, or a swing high and
\* swing low.
ShortPeakCandles == {Candle(1200, 1500, 1000, 1200), Candle(1200, 1600, 900, 1200)}

ShortInputs ==
    {[frame |-> [k \in 1..n |-> IF k = n THEN last
                                ELSE IF k = n - 2 THEN peak
                                ELSE Candle(1200, 1500, 1000, 1200)],
      volumes |-> [k \in 1..n |-> IF k = n THEN volume ELSE 100]] :
        n \in ShortLengths, last \in ShortLastCandles, peak \in ShortPeakCandles,
        volume \in SpikeVolumes}

ShortInit ==
    /\ fnPc = "input"
    /\ fnIn \in ShortInputs
    /\ fnOut = <<>>
    /\ OthersIdle

\* One call of an analyzer: it returned out. None of the five has a raise
\* statement, and the decorator of logs.py 103-112 only passes exceptions on.
Called(fn, out) ==
    /\ fnPc = "input"
    /\ fnOut' = [fn |-> fn, raised |-> FALSE, out |-> out]
    /\ fnPc' = "done"
    /\ UNCHANGED fnIn
    /\ UNCHANGED <<riskVars, scanVars, botVars, sendVars, trackerVars, fetcherVars, batchVars, cacheVars>>

CallDetectPatterns == Called("detect_patterns", DetectPatternsOn(fnIn.frame))
CallAnalyze == Called("analyze", Analyze(fnIn.frame))
CallCalculateRsi == Called("calculate_rsi", CalculateRsi(Closes(fnIn.frame)))
CallCheckVolume ==
    Called("check_volume_confirmation", CheckVolumeConfirmation(fnIn.volumes))
CallSupportResistance ==
    Called("calculate_support_resistance", CalculateSupportResistance(fnIn.frame))

ShortNext ==
    \/ CallDetectPatterns
    \/ CallAnalyze
    \/ CallCalculateRsi
    \/ CallCheckVolume
    \/ CallSupportResistance

ShortSeriesSpec == ShortInit /\ [][ShortNext]_vars

\* ----------------------------------------------------------------- BotSpec
\* telegram_bot.py and approval.py: the command handlers and the trading
\* loops as tasks of one asyncio event loop. A task runs without
\* interruption from one await to the next, and the handlers run one after
\* the other.

\* config.py 13.
ADMIN_USER_ID == "admin"
People == {"admin", "alice", "bob"}
Loops == 1..MaxLoops

\* approval.py 9-24: the ids read from the file; the empty set when the file
\* is missing, and when open or json.load raise (readable = FALSE).
LoadApprovedUsers(file, readable) ==
    IF ~file.exists THEN {}
    ELSE IF ~readable THEN {}
    ELSE file.users

\* approval.py 26-33: the file after the call; open raising is logged and
\* leaves the file as it was (writable = FALSE).
SaveApprovedUsers(file, user_set, writable) ==
    IF writable THEN [exists |-> TRUE, users |-> user_set] ELSE file

\* approval.py 35-50: what add_user returns and the file it leaves.
AddUser(file, user_id, readable, writable) ==
    LET approved_users == LoadApprovedUsers(file, readable)
    IN  IF user_id \in approved_users
        THEN [ret |-> FALSE, file |-> file]
        ELSE [ret |-> TRUE,
              file |-> SaveApprovedUsers(file, approved_users \cup {user_id},
                                         writable)]

\* is_user_approved, were it to approve everyone.
IsUserApprovedAlways(user_id, file, readable) == TRUE

\* approval.py 52-59.
IsUserApproved(user_id, file, readable) ==
    \/ user_id = ADMIN_USER_ID
    \/ user_id \in LoadApprovedUsers(file, readable)

\* The approval file at the start: missing, or holding some ids.
ApprovalFiles ==
    {[exists |-> FALSE, users |-> {}]}
    \cup {[exists |-> TRUE, users |-> u] : u \in SUBSET (People \ {ADMIN_USER_ID})}

BotInit ==
    /\ is_running = FALSE
    /\ loopPc = [l \in Loops |-> "none"]
    /\ cmdPc = "idle"
    /\ approval_file \in ApprovalFiles
    /\ persisted = approval_file.users
    /\ lastCmd = [n |-> 0, user |-> "", cmd |-> "", target |-> "", ret |-> FALSE]
    /\ revealed = {}
    /\ manual_scans = 0
    /\ RiskIdle
    /\ ScanIdle
    /\ TrackerInit
    /\ FetcherInit
    /\ BatchIdle
    /\ CacheIdle
    /\ FnIdle
    /\ SendIdle

\* scan_all_stocks is a plain call (line 353): while a loop is in it, the
\* event loop runs nothing else.
Blocked == \E l \in Loops : loopPc[l] = "scanning"

\* The dispatcher hands the next command to its handler.
Handles(user, cmd, target, ret) ==
    /\ cmdPc = "idle"
    /\ ~Blocked
    /\ lastCmd.n < MaxCommands
    /\ lastCmd' = [n |-> lastCmd.n + 1, user |-> user, cmd |-> cmd,
                   target |-> target, ret |-> ret]

\* Lines 107-140: /autotrade on.
AutotradeOn ==
    \E user \in People, readable \in BOOLEAN :
        /\ Handles(user, "autotrade on", "", FALSE)
        /\ IF IsUserApproved(user, approval_file, readable) /\ ~is_running
           THEN /\ \E l \in Loops : loopPc[l] = "none"
                /\ is_running' = TRUE
                /\ cmdPc' = "starting"
           ELSE UNCHANGED <<is_running, cmdPc>>
        /\ UNCHANGED <<loopPc, approval_file, persisted, revealed, manual_scans>>
        /\ UNCHANGED <<riskVars, scanVars, trackerVars, fetcherVars, batchVars,
                       cacheVars, fnVars, sendVars>>

\* Line 140, after the await of line 130: asyncio.create_task(trading_loop()).
AutotradeCreateTask ==
    /\ cmdPc = "starting"
    /\ ~Blocked
    /\ LET l == CHOOSE l \in Loops :
                   loopPc[l] = "none" /\ \A k \in Loops : loopPc[k] = "none" => l <= k
       IN  loopPc' = [loopPc EXCEPT ![l] = "check"]
    /\ cmdPc' = "idle"
    /\ UNCHANGED <<is_running, approval_file, persisted, lastCmd, revealed,
                   manual_scans>>
    /\ UNCHANGED <<riskVars, scanVars, trackerVars, fetcherVars, batchVars,
                   cacheVars, fnVars, sendVars>>

\* Lines 107-123 and 142-152: /autotrade off.
AutotradeOff ==
    \E user \in People, readable \in BOOLEAN :
        /\ Handles(user, "autotrade off", "", FALSE)
        /\ IF IsUserApproved(user, approval_file, readable) /\ is_running
           THEN is_running' = FALSE
           ELSE UNCHANGED is_running
        /\ UNCHANGED <<loopPc, cmdPc, approval_file, persisted, revealed,
                       manual_scans>>
        /\ UNCHANGED <<riskVars, scanVars, trackerVars, fetcherVars, batchVars,
                       cacheVars, fnVars, sendVars>>

\* Lines 158-190 and 192-213: /status and /logs answer approved users.
StatusOrLogs ==
    \E user \in People, cmd \in {"status", "logs"}, readable \in BOOLEAN :
        /\ Handles(user, cmd, "", FALSE)
        /\ IF IsUserApproved(user, approval_file, readable)
           THEN revealed' = revealed \cup {user}
           ELSE UNCHANGED revealed
        /\ UNCHANGED <<is_running, loopPc, cmdPc, approval_file, persisted,
                       manual_scans>>
        /\ UNCHANGED <<riskVars, scanVars, trackerVars, fetcherVars, batchVars,
                       cacheVars, fnVars, sendVars>>

\* Lines 215-236: /scan.
ScanCommand ==
    \E user \in People, readable \in BOOLEAN :
        /\ Handles(user, "scan", "", FALSE)
        /\ IF IsUserApproved(user, approval_file, readable)
           THEN manual_scans' = manual_scans + 1
           ELSE UNCHANGED manual_scans
        /\ UNCHANGED <<is_running, loopPc, cmdPc, approval_file, persisted,
                       revealed>>
        /\ UNCHANGED <<riskVars, scanVars, trackerVars, fetcherVars, batchVars,
                       cacheVars, fnVars, sendVars>>

\* Lines 71-104: /adduser <user_id>.
AdduserCommand ==
    \E user \in People, target \in People, readable \in BOOLEAN,
       writable \in BOOLEAN :
        LET added == AddUser(approval_file, target, readable, writable)
        IN  /\ IF user # ADMIN_USER_ID
               THEN /\ Handles(user, "adduser", target, FALSE)
                    /\ UNCHANGED <<approval_file, persisted>>
               ELSE /\ Handles(user, "adduser", target, added.ret)
                    /\ approval_file' = added.file
                    /\ persisted' = persisted \cup added.file.users
            /\ UNCHANGED <<is_running, loopPc, cmdPc, revealed, manual_scans>>
            /\ UNCHANGED <<riskVars, scanVars, trackerVars, fetcherVars,
                           batchVars, cacheVars, fnVars, sendVars>>

\* Lines 342-353: the test of the while, then get_market_status; a closed
\* market leads to the sleep of line 349, an open one to the scan.
LoopCheck(l) ==
    /\ loopPc[l] = "check"
    /\ ~Blocked
    /\ \E market_open \in BOOLEAN :
         loopPc' = [loopPc EXCEPT ![l] = IF ~is_running THEN "exited"
                                         ELSE IF market_open THEN "scanning"
                                         ELSE "sleeping"]
    /\ UNCHANGED <<is_running, cmdPc, approval_file, persisted, lastCmd,
                   revealed, manual_scans>>
    /\ UNCHANGED <<riskVars, scanVars, trackerVars, fetcherVars, batchVars,
                   cacheVars, fnVars, sendVars>>

\* Lines 353-367: the scan returns, and the loop awaits the sends and the
\* sleep of line 362, or the sleep of line 367 after an exception.
LoopScan(l) ==
    /\ loopPc[l] = "scanning"
    /\ loopPc' = [loopPc EXCEPT ![l] = "sleeping"]
    /\ UNCHANGED <<is_running, cmdPc, approval_file, persisted, lastCmd,
                   revealed, manual_scans>>
    /\ UNCHANGED <<riskVars, scanVars, trackerVars, fetcherVars, batchVars,
                   cacheVars, fnVars, sendVars>>

\* A sleep ends: back to the test of the while.
LoopWake(l) ==
    /\ loopPc[l] = "sleeping"
    /\ ~Blocked
    /\ loopPc' = [loopPc EXCEPT ![l] = "check"]
    /\ UNCHANGED <<is_running, cmdPc, approval_file, persisted, lastCmd,
                   revealed, manual_scans>>
    /\ UNCHANGED <<riskVars, scanVars, trackerVars, fetcherVars, batchVars,
                   cacheVars, fnVars, sendVars>>

BotNext ==
    \/ AutotradeOn
    \/ AutotradeCreateTask
    \/ AutotradeOff
    \/ StatusOrLogs
    \/ ScanCommand
    \/ AdduserCommand
    \/ \E l \in Loops : LoopCheck(l)
    \/ \E l \in Loops : LoopScan(l)
    \/ \E l \in Loops : LoopWake(l)

BotSpec == BotInit /\ [][BotNext]_vars

\* ================================================================= claims

\* What the statements below mean by their words, stated on the state alone.
SeriesAccepted == df.present /\ df.len >= 50

NearSome(lv) ==
    \E i \in 1..Len(lv) : Abs(df.close - lv[i]) * 1000 <= 5 * lv[i]

IndicatorConfirmed(signal_type) ==
    \/ signal_type = "BUY" /\ df.rsi < 40
    \/ signal_type = "SELL" /\ df.rsi > 60
    \/ df.volume_ratio * 10 >= 150

\* A structure signal of the direction of signal_type: the analyzer's BULLISH
\* is the Buy direction, its BEARISH the Sell direction.
StructureOfDirection(signal_type) ==
    LET t == IF signal_type = "BUY" THEN "BULLISH" ELSE "BEARISH"
    IN  \/ \E i \in 1..Len(ict_signals.order_blocks) :
              ict_signals.order_blocks[i].type = t
        \/ \E i \in 1..Len(ict_signals.liquidity_grabs) :
              ict_signals.liquidity_grabs[i].type = t
        \/ \E i \in 1..Len(ict_signals.break_retest) :
              ict_signals.break_retest[i].type = t

LogHas(g, i) == \E k \in 1..Len(gateLog) : gateLog[k].gate = g /\ gateLog[k].idx = i

LogPassed(g, i) ==
    \E k \in 1..Len(gateLog) :
        gateLog[k].gate = g /\ gateLog[k].idx = i /\ gateLog[k].pass

\* ---- C1
\* C1: scan_stock returns a Signal only if every gate passed for the returned
\* pattern: a series of at least 50 bars, the close within the threshold of
\* some level, a non-empty pattern list holding the pattern, RSI or volume
\* confirmed for its direction, a structure score of at least 1 for its
\* direction and a risk/reward of at least the minimum; every gate the call
\* records as passed did pass; a structure score of 0 yields no Signal.
C1_SignalOnlyIfAllGates ==
    /\ \A k \in 1..Len(gateLog) :
         LET g == gateLog[k]
         IN  /\ g.gate = "fetch" => (g.pass <=> SeriesAccepted)
             /\ g.gate = "proximity" =>
                  (g.pass <=> (NearSome(levels.support) \/ NearSome(levels.resistance)))
             /\ g.gate = "patterns" => (g.pass <=> patterns # <<>>)
             /\ g.gate = "confirmation" =>
                  (g.pass <=> IndicatorConfirmed(patterns[g.idx].type))
             /\ g.gate = "structure" =>
                  (g.pass <=> GetIctScore(ict_signals, patterns[g.idx].type) >= 1)
    /\ result.kind = "signal" =>
         /\ SeriesAccepted
         /\ NearSome(levels.support) \/ NearSome(levels.resistance)
         /\ patterns # <<>>
         /\ idx \in 1..Len(patterns)
         /\ patterns[idx].name = result.pattern_name
         /\ patterns[idx].type = result.signal_type
         /\ LogPassed("fetch", 0) /\ LogPassed("proximity", 0) /\ LogPassed("patterns", 0)
         /\ LogPassed("direction", idx) /\ LogPassed("confirmation", idx)
         /\ LogPassed("structure", idx) /\ LogPassed("risk", idx)
         /\ IndicatorConfirmed(result.signal_type)
         /\ GetIctScore(ict_signals, result.signal_type) >= 1
         /\ result.prices.risk_reward * 10 >= MIN_RISK_REWARD_RATIO * 100

\* A call whose candidate passed every gate before the structure gate, had a
\* structure score of 0 and ended without a Signal.
C1_Witness ==
    /\ scanPc = "done"
    /\ result.kind = "none"
    /\ LogPassed("confirmation", 1)
    /\ LogHas("structure", 1)
    /\ ~LogPassed("structure", 1)
    /\ ict_signals = [order_blocks |-> <<>>, liquidity_grabs |-> <<>>, break_retest |-> <<>>]

\* ---- C2
\* C2: a series of at least 50 bars whose close is near a support level and
\* near no resistance level, with a Buy pattern, RSI or volume confirmed for
\* Buy and at least one bullish structure signal, yields a Signal with
\* direction Buy and risk_reward at least the minimum.
C2_BuySignalReturned ==
    ( /\ scanPc = "done"
      /\ SeriesAccepted
      /\ NearSome(levels.support)
      /\ ~NearSome(levels.resistance)
      /\ \E i \in 1..Len(patterns) : patterns[i].type = "BUY"
      /\ IndicatorConfirmed("BUY")
      /\ StructureOfDirection("BUY") )
    => /\ result.kind = "signal"
       /\ result.signal_type = "BUY"
       /\ result.prices.risk_reward * 10 >= MIN_RISK_REWARD_RATIO * 100

\* ---- C3
\* A pattern that passes every gate, as C1 lists them.
PassesAllGates(i) ==
    /\ sr.type = "support" => patterns[i].type = "BUY"
    /\ sr.type = "resistance" => patterns[i].type = "SELL"
    /\ IndicatorConfirmed(patterns[i].type)
    /\ StructureOfDirection(patterns[i].type)
    /\ TARGET_PERCENTAGE_1 * 10 >= MIN_RISK_REWARD_RATIO * STOP_LOSS_PERCENTAGE

\* C3: when several detected patterns pass all gates, scan_stock returns the
\* one that comes first in the detector's order, and evaluates no pattern
\* after it.
C3_FirstConfirmedReturned ==
    scanPc = "done" =>
        LET passing == {i \in 1..Len(patterns) : PassesAllGates(i)}
        IN  Cardinality(passing) >= 2 =>
              LET first == CHOOSE i \in passing : \A j \in passing : i <= j
              IN  /\ result.kind = "signal"
                  /\ result.pattern_name = patterns[first].name
                  /\ \A k \in 1..Len(gateLog) : gateLog[k].idx <= first

\* ---- C4
\* C4: a returned Signal is Buy iff the proximity class is support and Sell
\* iff it is resistance; a pattern whose direction does not match the
\* proximity class never reaches the confirmation, structure or risk gate.
C4_DirectionFollowsProximity ==
    /\ result.kind = "signal" =>
         /\ result.signal_type = "BUY" <=> sr.type = "support"
         /\ result.signal_type = "SELL" <=> sr.type = "resistance"
    /\ \A k \in 1..Len(gateLog) :
         gateLog[k].gate \in {"confirmation", "structure", "risk"} =>
             /\ sr.type = "support" => patterns[gateLog[k].idx].type = "BUY"
             /\ sr.type = "resistance" => patterns[gateLog[k].idx].type = "SELL"

\* Near support, a Sell pattern was rejected by the direction filter alone and
\* the Buy pattern after it went on to the confirmation gate.
C4_Witness ==
    /\ scanPc = "done"
    /\ sr.type = "support"
    /\ Len(patterns) = 2
    /\ patterns[1].type = "SELL"
    /\ patterns[2].type = "BUY"
    /\ LogHas("direction", 1)
    /\ ~LogHas("confirmation", 1)
    /\ LogHas("confirmation", 2)

\* ---- C5
\* The stocks whose task failed: an exception was raised in it, or its fetch
\* gave no usable series.
Raised == {s \in Stocks : taskRaised[s]}
EmptyData == {s \in Stocks : taskPc[s] = "finished" /\ ~taskRaised[s]
                              /\ (taskIn[s].series.kind = "None" \/ taskIn[s].series.len = 0)}
InList == {signals[k].stock : k \in 1..Len(signals)}

\* C5: a task that raises or gets empty data does not abort the batch: the
\* list scan_all_stocks returns holds, once each, exactly the Signals of the
\* stocks whose pipeline produced one, none for a failing stock, and a single
\* exception raises the error counter by exactly one.
C5_BatchSurvivesFailure ==
    /\ \A k \in 1..Len(signals) :
         /\ signals[k].stock \in collected
         /\ signals[k].signal = taskResult[signals[k].stock]
         /\ signals[k].signal.kind = "signal"
         /\ \A j \in 1..Len(signals) : signals[j].stock = signals[k].stock => j = k
    /\ InList \cap (Raised \cup EmptyData) = {}
    /\ batchPc # "aborted"
    /\ batchPc = "returned" =>
         /\ \A s \in Stocks : taskPc[s] = "finished"
         /\ InList = {s \in Stocks : taskResult[s].kind = "signal"}
         /\ signals_sent = Len(signals)
         /\ Cardinality(Raised) = 1 => errors = 1
         /\ Cardinality(Raised) = 0 => errors = 0

\* A batch that returned although one task raised in an analyzer and another
\* got an empty frame, the third having run its pipeline to the end.
C5_Witness ==
    /\ batchPc = "returned"
    /\ taskRaised = [s \in Stocks |-> s = 1]
    /\ taskIn[1].series.kind = "series"
    /\ taskIn[2].frame.rows = 0
    /\ taskIn[3].series.kind = "series"
    /\ taskIn[3].series.len >= 50
    /\ taskIn[3].scen # NoScenario
    /\ errors = 1

\* ---- C6
\* C6: scan_all_stocks eventually returns, also when the fetch of one stock
\* never answers.
C6_BatchEventuallyReturns == <>(batchPc = "returned")

\* ---- C7
\* The gate that may follow gate a in one call.
MayFollow(a, b) ==
    \/ a.gate = "fetch" /\ a.pass /\ b.gate = "proximity"
    \/ a.gate = "proximity" /\ a.pass /\ b.gate = "patterns"
    \/ a.gate = "patterns" /\ a.pass /\ b.gate = "direction" /\ b.idx = 1
    \/ a.gate = "direction" /\ a.pass /\ b.gate = "confirmation" /\ b.idx = a.idx
    \/ a.gate = "confirmation" /\ a.pass /\ b.gate = "structure" /\ b.idx = a.idx
    \/ a.gate = "structure" /\ a.pass /\ b.gate = "risk" /\ b.idx = a.idx
    \/ /\ a.gate \in {"direction", "confirmation", "structure", "risk"}
       /\ ~a.pass
       /\ b.gate = "direction"
       /\ b.idx = a.idx + 1

\* C7: within one call the gates are evaluated in the order fetch, proximity,
\* pattern detection, then per pattern direction, confirmation, structure,
\* risk; a gate is evaluated only after every earlier gate passed, and after a
\* gate fails for a pattern no later gate is evaluated for that pattern.
C7_GateOrder ==
    /\ gateLog # <<>> => gateLog[1].gate = "fetch"
    /\ \A k \in 1..(Len(gateLog) - 1) : MayFollow(gateLog[k], gateLog[k + 1])

\* The first pattern stopped at the direction filter; the second was taken
\* through direction and confirmation and stopped at the structure gate, which
\* ended the call after seven gate evaluations.
C7_Witness ==
    /\ scanPc = "done"
    /\ Len(gateLog) = 7
    /\ gateLog[4] = [gate |-> "direction", idx |-> 1, pass |-> FALSE]
    /\ gateLog[6] = [gate |-> "confirmation", idx |-> 2, pass |-> TRUE]
    /\ gateLog[7] = [gate |-> "structure", idx |-> 2, pass |-> FALSE]

\* ---- C8
\* C8: under every interleaving of fetch_stock_data calls and clear_cache,
\* every call that takes the cache branch returns a complete non-empty bar
\* series stored for its own key; none returns None or an empty series from
\* the cache, and none fails on a key that has gone.
C8_CacheHitsYieldStoredSeries ==
    \A t \in Threads :
        /\ thRet[t].kind # "KeyError"
        /\ thRet[t].kind = "hit" =>
             /\ thRet[t].value.kind = "series"
             /\ thRet[t].value.key = thRet[t].key
             /\ thRet[t].value.len > 0

\* ---- C9
\* The original statement: the price fields of an emitted Signal are exactly
\* e*(1 -+ SL%), e*(1 +- TP1%), e*(1 +- TP2%) and the close itself, strictly
\* ordered, for every entry e > 0.
C9_SignalFieldsExact ==
    (riskPc = "signal" /\ riskIn.entry_price > 0) =>
        LET e == riskIn.entry_price
            sig == riskOut.sig
            sgn == IF riskIn.signal_type = "BUY" THEN 1 ELSE -1
        IN  /\ sig.entry_price * 10 = e
            /\ sig.stop_loss * 10000 = e * 1000 - sgn * e * STOP_LOSS_PERCENTAGE
            /\ sig.target_1 * 10000 = e * 1000 + sgn * e * TARGET_PERCENTAGE_1
            /\ sig.target_2 * 10000 = e * 1000 + sgn * e * TARGET_PERCENTAGE_2
            /\ sgn * sig.stop_loss < sgn * sig.entry_price
            /\ sgn * sig.entry_price < sgn * sig.target_1
            /\ sgn * sig.target_1 < sgn * sig.target_2

\* C9 as amended: for every candidate with entry e > 0 the values scan_stock
\* computes are stop_loss = e*(1-SL%), target_1 = e*(1+TP1%), target_2 =
\* e*(1+TP2%) for Buy (mirrored for Sell) and are strictly ordered; the Signal
\* carries the close and these three values each rounded to 2 decimals, so
\* every field is within 0.005 of its value, the fields are ordered
\* stop_loss <= entry <= target_1 <= target_2 (mirrored for Sell), and strictly
\* so once e > 1.25.
C9_RiskModelThenRounded ==
    (riskPc # "input" /\ riskIn.entry_price > 0) =>
        LET e == riskIn.entry_price
            loc == riskOut.loc
            sig == riskOut.sig
            sgn == IF riskIn.signal_type = "BUY" THEN 1 ELSE -1
        IN  /\ loc.stop_loss = e * 1000 - sgn * e * STOP_LOSS_PERCENTAGE
            /\ loc.target_1 = e * 1000 + sgn * e * TARGET_PERCENTAGE_1
            /\ loc.target_2 = e * 1000 + sgn * e * TARGET_PERCENTAGE_2
            /\ sgn * loc.stop_loss < sgn * e * 1000
            /\ sgn * e * 1000 < sgn * loc.target_1
            /\ sgn * loc.target_1 < sgn * loc.target_2
            /\ riskPc = "signal" =>
                 /\ Abs(sig.entry_price * 10000 - e * 1000) <= 5000
                 /\ Abs(sig.stop_loss * 10000 - loc.stop_loss) <= 5000
                 /\ Abs(sig.target_1 * 10000 - loc.target_1) <= 5000
                 /\ Abs(sig.target_2 * 10000 - loc.target_2) <= 5000
                 /\ sgn * sig.stop_loss <= sgn * sig.entry_price
                 /\ sgn * sig.entry_price <= sgn * sig.target_1
                 /\ sgn * sig.target_1 <= sgn * sig.target_2
                 /\ e > 1250 =>
                      /\ sgn * sig.stop_loss < sgn * sig.entry_price
                      /\ sgn * sig.entry_price < sgn * sig.target_1
                      /\ sgn * sig.target_1 < sgn * sig.target_2

\* A Sell Signal above 1.25 whose stop_loss field is not the computed value.
C9_Witness ==
    /\ riskPc = "signal"
    /\ riskIn.signal_type = "SELL"
    /\ riskIn.entry_price > 1250
    /\ riskOut.sig.stop_loss * 10000 # riskOut.loc.stop_loss

\* ---- C10
\* C10: risk = |entry - stop|, reward = |target_1 - entry|, the ratio is
\* reward/risk and is 0 when risk is 0; a candidate is skipped by the risk gate
\* exactly when the computed ratio is strictly below the minimum, so a computed
\* ratio equal to the minimum goes on to the Signal.
C10_RatioAndGate ==
    (riskPc # "input") =>
        LET e == riskIn.entry_price
            loc == riskOut.loc
            rr == loc.rr_ratio
            below == \/ rr.num * 10 < MIN_RISK_REWARD_RATIO * rr.den
                     \/ /\ rr.num * 10 = MIN_RISK_REWARD_RATIO * rr.den
                        /\ rr.fp < 0
        IN  /\ loc.risk = Abs(e * 1000 - loc.stop_loss)
            /\ loc.reward = Abs(loc.target_1 - e * 1000)
            /\ loc.risk = 0 => (rr.num = 0 /\ rr.fp = 0)
            /\ loc.risk > 0 => (rr.num * loc.risk = loc.reward * rr.den)
            /\ rr.den > 0
            /\ loc.rejected <=> below
            /\ riskPc = "skipped" => below
            /\ riskPc = "signal" => ~below

\* A candidate whose computed ratio equals the minimum and that became a Signal.
C10_Witness ==
    /\ riskPc = "signal"
    /\ riskOut.loc.risk > 0
    /\ riskOut.loc.rr_ratio.fp = 0
    /\ riskOut.loc.rr_ratio.num * 10 = MIN_RISK_REWARD_RATIO * riskOut.loc.rr_ratio.den

\* ---- C11
\* A list of one kind holds a signal of the direction asked for: a bullish
\* signal for Buy, a bearish one for Sell.
KindMatches(list, signal_type) ==
    \E i \in 1..Len(list) :
        list[i].type = (IF signal_type = "BUY" THEN "BULLISH" ELSE "BEARISH")

\* C11: get_ict_score equals the number of the three kinds that hold at least
\* one signal of the requested direction, so it lies in 0..3 and does not
\* depend on how many signals of a kind match.
C11_ScoreCountsMatchingKinds ==
    fnPc = "done" =>
        /\ fnOut \in 0..3
        /\ fnOut = (IF KindMatches(fnIn.ict.order_blocks, fnIn.signal_type) THEN 1 ELSE 0)
                 + (IF KindMatches(fnIn.ict.liquidity_grabs, fnIn.signal_type) THEN 1 ELSE 0)
                 + (IF KindMatches(fnIn.ict.break_retest, fnIn.signal_type) THEN 1 ELSE 0)

\* ---- C12
WithinThreshold(x, first) == Abs(x - first) * 1000 <= 5 * first

RECURSIVE Flatten(_)
Flatten(ll) == IF ll = <<>> THEN <<>> ELSE Head(ll) \o Flatten(Tail(ll))

Occurrences(l, v) == Cardinality({i \in 1..Len(l) : l[i] = v})

\* C12: the clusters are consecutive runs of the values in ascending order; a
\* value is in the run of the current first value iff it is within the
\* threshold of that first value, else it opens the next run; each run is
\* output as its mean.  The output is non-decreasing, every input is within
\* the threshold of the first member of some cluster.
C12_ClusterLevels ==
    fnPc = "done" =>
        LET g == fnOut.groups
            m == fnOut.means
            flat == Flatten(g)
        IN  /\ Len(flat) = Len(fnIn)
            /\ \A i \in 1..Len(fnIn) :
                 Occurrences(flat, fnIn[i]) = Occurrences(fnIn, fnIn[i])
            /\ \A i \in 1..(Len(flat) - 1) : flat[i] <= flat[i + 1]
            /\ \A k \in 1..Len(g) :
                 /\ g[k] # <<>>
                 /\ \A j \in 1..Len(g[k]) : WithinThreshold(g[k][j], g[k][1])
                 /\ k < Len(g) => ~WithinThreshold(g[k + 1][1], g[k][1])
            /\ Len(m) = Len(g)
            /\ \A k \in 1..Len(g) :
                 /\ m[k].n = Len(g[k])
                 /\ m[k].sum = SumSeq(g[k])
            /\ \A k \in 1..(Len(m) - 1) : m[k].sum * m[k + 1].n <= m[k + 1].sum * m[k].n
            /\ \A i \in 1..Len(fnIn) :
                 \E k \in 1..Len(g) : WithinThreshold(fnIn[i], g[k][1])

\* 100900 is within the threshold of 100400, the value before it, but not of
\* 100000, the first of that cluster: it forms a cluster of its own.
C12_Witness ==
    /\ fnPc = "done"
    /\ fnIn = <<100900, 100000, 100400>>
    /\ fnOut.groups = <<<<100000, 100400>>, <<100900>>>>
    /\ fnOut.means = <<[sum |-> 200400, n |-> 2], [sum |-> 100900, n |-> 1]>>

\* ---- C13
Qualifies(price, level) == Abs(price - level) * 1000 <= 5 * level

\* The first level of lv that qualifies, or 0.
FirstQualifying(price, lv) ==
    IF \E i \in 1..Len(lv) : Qualifies(price, lv[i])
    THEN lv[CHOOSE i \in 1..Len(lv) :
                /\ Qualifies(price, lv[i])
                /\ \A j \in 1..(i - 1) : ~Qualifies(price, lv[j])]
    ELSE 0

\* C13: one classification per call: the first resistance, in list order,
\* within the threshold of the price; if there is none the first such support;
\* if there is none either, none.
C13_FirstMatchResistanceFirst ==
    fnPc = "done" =>
        LET r == FirstQualifying(fnIn.current_price, fnIn.resistance_levels)
            s == FirstQualifying(fnIn.current_price, fnIn.support_levels)
        IN  /\ fnOut.type \in {"resistance", "support", "none"}
            /\ r # 0 => fnOut = [type |-> "resistance", level |-> r]
            /\ (r = 0 /\ s # 0) => fnOut = [type |-> "support", level |-> s]
            /\ (r = 0 /\ s = 0) => fnOut.type = "none"

\* The price is within the threshold of two resistances and of a support that
\* is nearer than both; the answer is the first resistance of the list, not
\* the nearer one and not the support.
C13_Witness ==
    /\ fnPc = "done"
    /\ fnIn.current_price = 100000
    /\ fnIn.resistance_levels = <<99700, 100500>>
    /\ fnIn.support_levels = <<100050>>
    /\ fnOut = [type |-> "resistance", level |-> 99700]

\* ---- C14
\* C14: the RSI of the last bar is a number in [0, 100], also when the last
\* 14 changes hold no loss or no change at all; a series of fewer than 15
\* bars has RSI 50 at every bar.
C14_RsiInRange ==
    fnPc = "done" =>
        LET last == fnOut[Len(fnOut)]
        IN  /\ Len(fnOut) = Len(fnIn)
            /\ ~last.nan
            /\ 0 <= last.num
            /\ last.num <= 100 * last.den
            /\ Len(fnIn) < 15 =>
                 \A i \in 1..Len(fnOut) : ~fnOut[i].nan /\ fnOut[i].num = 50 * fnOut[i].den

\* ---- C15
\* C15: on a frame of at least 5 bars the result of detect_patterns holds, for
\* each of the eight patterns, exactly one entry if its predicate holds on
\* the trailing bars and none if it does not.
C15_EveryMatchOnce ==
    (fnPc = "done" /\ Len(fnIn) >= 5) =>
        \A name \in {"Bullish Engulfing", "Bearish Engulfing", "Hammer", "Shooting Star",
                     "Morning Star", "Evening Star", "Bullish Pin Bar", "Bearish Pin Bar"} :
            Cardinality({i \in 1..Len(fnOut) : fnOut[i].name = name})
                = (IF PredicateHolds(name, fnIn) THEN 1 ELSE 0)

\* A last bar that is both a Hammer and a Bullish Pin Bar, and both entries
\* in the result.
C15_Witness ==
    /\ fnPc = "done"
    /\ Len(fnIn) = 5
    /\ fnIn[5] = [Open |-> 12, High |-> 15, Low |-> 0, Close |-> 14]
    /\ IsHammer(fnIn)
    /\ IsBullishPinBar(fnIn)
    /\ \E i, j \in 1..Len(fnOut) :
         fnOut[i].name = "Hammer" /\ fnOut[j].name = "Bullish Pin Bar"

\* ---- C16
\* The tasks of the batch that reached ticker.history and got an answer.
FreshFetches ==
    {s \in Stocks : taskPc[s] = "finished"
                    /\ ~(taskRaised[s] /\ taskIn[s].series.kind = "None")}

\* C16: when the batch has returned, the error counter has grown by the
\* number of tasks in which an exception was raised, and the API-call counter
\* by the number of fresh fetches.
C16_CountersLoseNoUpdate ==
    batchPc = "returned" =>
        /\ errors = Cardinality({s \in Stocks : taskRaised[s]})
        /\ api_calls = Cardinality(FreshFetches)

C18_EverySignalAttempted ==
    /\ ~escaped
    /\ sendPc \in {"off", "sending", "done"}
    /\ Len(attempts) = sendIdx
    /\ sendPc = "done" => sendIdx = Len(batch)
    /\ \A k \in 1..Len(attempts) :
         /\ attempts[k].symbol = batch[k].symbol
         /\ attempts[k].kind \in {"photo", "text"}
         /\ attempts[k].kind = "photo" <=> attempts[k].chart_path # "None"
         /\ ~chart_enabled => attempts[k].kind = "text"

\* Chart generation is on and gave nothing for the first Signal, whose text
\* message failed; the second Signal was delivered all the same.
C18_Witness ==
    /\ sendPc = "done"
    /\ chart_enabled
    /\ Len(batch) >= 2
    /\ Len(attempts) = Len(batch)
    /\ attempts[1].kind = "text"
    /\ ~attempts[1].delivered
    /\ attempts[2].delivered

\* ---- C19
\* C19: on a frame of at least 15 bars, a bullish liquidity grab is reported
\* iff the last low is at most 0.998 times the lowest low of the 10 bars
\* ending 2 bars before the last, the last bar closes above its open, and the
\* part of the bar below its body is at least 1.5 times the body; a bearish
\* one iff the last high is at least 1.002 times the highest high of those
\* bars, the bar closes below its open, and the part above its body is at
\* least 1.5 times the body. Nothing else is reported.
C19_GrabIffWickBelowBody ==
    (fnPc = "done" /\ Len(fnIn) >= 15) =>
        LET n == Len(fnIn)
            last == fnIn[n]
            swing_low == MinLow(SubSeq(fnIn, n - 11, n - 2))
            swing_high == MaxHigh(SubSeq(fnIn, n - 11, n - 2))
            body == Abs(last.Close - last.Open)
            bullish == /\ last.Low * 1000 <= swing_low * 998
                       /\ last.Close > last.Open
                       /\ LowShadow(last) * 10 >= body * 15
            bearish == /\ last.High * 1000 >= swing_high * 1002
                       /\ last.Close < last.Open
                       /\ HighShadow(last) * 10 >= body * 15
        IN  /\ HasType(fnOut, "BULLISH") <=> bullish
            /\ HasType(fnOut, "BEARISH") <=> bearish
            /\ Len(fnOut) <= 1

\* ---- C20
\* The bars an order block may sit on: index 10 <= i <= len - 6 as the code
\* counts, which is 11..Len - 5 here.
BlockRange == 11..(Len(fnIn) - 5)

\* Bar i has a body against the move, at least 3 of the next 5 bars have a
\* body with it, and the furthest close of those 5 bars is away from bar i's
\* close by more than (strict) or at least (~strict) 2% of it.
Impulse(i, type, strict) ==
    LET next == SubSeq(fnIn, i + 1, i + 5)
        with == {j \in 1..5 : IF type = "BULLISH" THEN next[j].Close > next[j].Open
                              ELSE next[j].Close < next[j].Open}
        far == IF type = "BULLISH"
               THEN CHOOSE j \in 1..5 : \A k \in 1..5 : next[k].Close <= next[j].Close
               ELSE CHOOSE j \in 1..5 : \A k \in 1..5 : next[k].Close >= next[j].Close
        move == IF type = "BULLISH" THEN next[far].Close - fnIn[i].Close
                ELSE fnIn[i].Close - next[far].Close
    IN  /\ IF type = "BULLISH" THEN fnIn[i].Close < fnIn[i].Open
           ELSE fnIn[i].Close > fnIn[i].Open
        /\ Cardinality(with) >= 3
        /\ IF strict THEN move * 100 > fnIn[i].Close * 2
           ELSE move * 100 >= fnIn[i].Close * 2

\* The current close lies within [low * 0.99, high * 1.01] of bar i.
CloseToBlock(i) ==
    /\ fnIn[Len(fnIn)].Close * 100 >= fnIn[i].Low * 99
    /\ fnIn[Len(fnIn)].Close * 100 <= fnIn[i].High * 101

\* The blocks reported are those of the bars of BlockRange that qualify and
\* are close to the current price, one entry for each.
ReportedAre(strict) ==
    LET expected == {<<i, type>> \in BlockRange \X {"BULLISH", "BEARISH"} :
                        Impulse(i, type, strict) /\ CloseToBlock(i)}
    IN  /\ Len(fnOut) = Cardinality(expected)
        /\ \A e \in expected :
             \E k \in 1..Len(fnOut) :
                /\ fnOut[k].type = e[2]
                /\ fnOut[k].price = fnIn[e[1]].Close
                /\ fnOut[k].high = fnIn[e[1]].High
                /\ fnOut[k].low = fnIn[e[1]].Low

\* C20, as stated: the move that qualifies a bar is one of at least 2%.
C20_BlocksOfAtLeastTwoPercent ==
    fnPc = "done" => ReportedAre(FALSE)

\* C20, amended: order blocks are looked for on the bars 10 <= i <= len - 6;
\* bar i is a bullish one iff it has a bearish body, at least 3 of the next 5
\* bars have a bullish body, and the highest close of those 5 bars is more
\* than 2% above bar i's close; bearish symmetrically with the lowest close.
\* A qualifying block is reported iff the current close lies within
\* [low * 0.99, high * 1.01] of the bar.
C20_BlocksOfMoreThanTwoPercent ==
    fnPc = "done" => ReportedAre(TRUE)

\* A bullish block was reported for a move between 2% and 3%.
C20_Witness ==
    /\ fnPc = "done"
    /\ Len(fnOut) = 1
    /\ fnOut[1].type = "BULLISH"
    /\ fnOut[1].strength = "Medium"

\* ---- C21
\* The bars the key levels are taken from: the 15 bars before the last 5.
KeyBars == (Len(fnIn) - 19)..(Len(fnIn) - 5)

\* Three times the mean of the 3 smallest lows of those bars: the least sum
\* of the lows of three of them.
Support3 ==
    LET sums == {fnIn[a].Low + fnIn[b].Low + fnIn[c].Low :
                    <<a, b, c>> \in {t \in KeyBars \X KeyBars \X KeyBars :
                                        t[1] < t[2] /\ t[2] < t[3]}}
    IN  CHOOSE x \in sums : \A y \in sums : x <= y

\* Three times the mean of the 3 largest highs of those bars.
Resistance3 ==
    LET sums == {fnIn[a].High + fnIn[b].High + fnIn[c].High :
                    <<a, b, c>> \in {t \in KeyBars \X KeyBars \X KeyBars :
                                        t[1] < t[2] /\ t[2] < t[3]}}
    IN  CHOOSE x \in sums : \A y \in sums : x >= y

\* close[-k].
CloseBack(k) == fnIn[Len(fnIn) - k + 1].Close

\* C21: on a frame of at least 20 bars, with support and resistance the means
\* of the 3 smallest lows and 3 largest highs of the 15 bars before the last
\* 5, a bullish setup is reported iff close[-4] < support, close[-3] >
\* support * 1.005, support * 0.995 <= close[-2] <= support * 1.01 and the
\* current close > close[-2]; a bearish one iff close[-4] > resistance,
\* close[-3] < resistance * 0.995, resistance * 0.99 <= close[-2] <=
\* resistance * 1.005 and the current close < close[-2]; at most one of each.
C21_BreakRetestSetups ==
    (fnPc = "done" /\ Len(fnIn) >= 20) =>
        LET bullish == /\ CloseBack(4) * 3 < Support3
                       /\ CloseBack(3) * 3000 > Support3 * 1005
                       /\ Support3 * 995 <= CloseBack(2) * 3000
                       /\ CloseBack(2) * 300 <= Support3 * 101
                       /\ CloseBack(1) > CloseBack(2)
            bearish == /\ CloseBack(4) * 3 > Resistance3
                       /\ CloseBack(3) * 3000 < Resistance3 * 995
                       /\ Resistance3 * 99 <= CloseBack(2) * 300
                       /\ CloseBack(2) * 3000 <= Resistance3 * 1005
                       /\ CloseBack(1) < CloseBack(2)
        IN  /\ HasType(fnOut, "BULLISH") <=> bullish
            /\ HasType(fnOut, "BEARISH") <=> bearish
            /\ Cardinality({k \in 1..Len(fnOut) : fnOut[k].type = "BULLISH"}) <= 1
            /\ Cardinality({k \in 1..Len(fnOut) : fnOut[k].type = "BEARISH"}) <= 1
            /\ \A k \in 1..Len(fnOut) : fnOut[k].type \in {"BULLISH", "BEARISH"}

\* A bullish setup on a support of 900, which three lows of 700, 1000 and
\* 1000 give: the retest closed on the lower edge of its band.
C21_Witness ==
    /\ fnPc = "done"
    /\ Len(fnOut) = 1
    /\ fnOut[1].type = "BULLISH"
    /\ fnOut[1].level3 = 2700
    /\ CloseBack(2) = 896

\* ---- C22
\* The named pattern is among those reported.
Reported(name) == \E k \in 1..Len(fnOut) : fnOut[k].name = name

\* The second-last bar has the opposite polarity, its body lies within the
\* last bar's body, and the last body is more than (strict) or at least
\* (~strict) 60% of the last bar's range.
Engulfs(bullish, strict) ==
    LET prev == fnIn[Len(fnIn) - 1]
        curr == fnIn[Len(fnIn)]
        body == IF curr.Close >= curr.Open THEN curr.Close - curr.Open
                ELSE curr.Open - curr.Close
        range == curr.High - curr.Low
    IN  /\ IF bullish
           THEN /\ prev.Close < prev.Open
                /\ curr.Close > curr.Open
                /\ curr.Open <= prev.Close
                /\ curr.Close >= prev.Open
           ELSE /\ prev.Close > prev.Open
                /\ curr.Close < curr.Open
                /\ curr.Open >= prev.Close
                /\ curr.Close <= prev.Open
        /\ IF strict THEN body * 10 > range * 6 ELSE body * 10 >= range * 6

\* C22, as stated: a body of at least 60% of the range makes an Engulfing.
C22_EngulfingAtLeastSixty ==
    fnPc = "done" =>
        /\ Reported("Bullish Engulfing") <=> Engulfs(TRUE, FALSE)
        /\ Reported("Bearish Engulfing") <=> Engulfs(FALSE, FALSE)

\* C22, amended: an Engulfing pattern is reported iff the previous candle has
\* the opposite polarity, its body lies within the current candle's body,
\* and the current body is more than 60% of the current bar's range; a body
\* of exactly 60% of the range does not qualify.
C22_EngulfingAboveSixty ==
    fnPc = "done" =>
        /\ Reported("Bullish Engulfing") <=> Engulfs(TRUE, TRUE)
        /\ Reported("Bearish Engulfing") <=> Engulfs(FALSE, TRUE)

\* A Bullish Engulfing was reported for a last bar whose body is 11 of a
\* range of 15.
C22_Witness ==
    /\ fnPc = "done"
    /\ Reported("Bullish Engulfing")
    /\ fnIn[4] = [Open |-> 12, High |-> 12, Low |-> 3, Close |-> 3]
    /\ fnIn[5] = [Open |-> 3, High |-> 15, Low |-> 0, Close |-> 14]

\* ---- C25
\* The sum of the volumes of the bars from..to.
RECURSIVE VolumeSum(_, _)
VolumeSum(from, to) ==
    IF from > to THEN 0 ELSE fnIn[from] + VolumeSum(from + 1, to)

\* C25: for every series check_volume_confirmation accepts (20 bars or more)
\* there are 20 bars before the last one; when their mean volume is positive
\* the ratio is the last volume divided by that mean, and the result is
\* confirmed iff the ratio is at least 1.5.
C25_RatioOverTwentyBars ==
    (fnPc = "done" /\ Len(fnIn) >= 20) =>
        LET n == Len(fnIn)
        IN  /\ n - 1 >= 20
            /\ VolumeSum(n - 20, n - 1) > 0 =>
                 /\ fnOut.volume_ratio.num * VolumeSum(n - 20, n - 1)
                        = fnIn[n] * 20 * fnOut.volume_ratio.den
                 /\ fnOut.has_spike <=>
                        fnIn[n] * 20 * 10 >= 15 * VolumeSum(n - 20, n - 1)

\* ---- C23
\* The RSI get_confirmation computed is a number, below or above the bound.
RsiDefined == ~fnOut.current_rsi.none /\ ~fnOut.current_rsi.nan
RsiUnder(bound) == fnOut.current_rsi.num < bound * fnOut.current_rsi.den
RsiOver(bound) == fnOut.current_rsi.num > bound * fnOut.current_rsi.den

\* C23: rsi_confirmed is set for a Buy iff the last RSI is a number strictly
\* below 40 (oversold + 10), and for a Sell iff it is a number strictly above
\* 60 (overbought - 10); an RSI from 40 to 60, or no RSI, confirms neither.
C23_RsiConfirmsApproachingZone ==
    fnPc = "done" =>
        /\ fnIn.signal_type = "BUY" =>
             (fnOut.rsi_confirmed <=> (RsiDefined /\ RsiUnder(40)))
        /\ fnIn.signal_type = "SELL" =>
             (fnOut.rsi_confirmed <=> (RsiDefined /\ RsiOver(60)))

\* A Buy confirmed by an RSI between 30 and 40.
C23_Witness ==
    /\ fnPc = "done"
    /\ fnIn.signal_type = "BUY"
    /\ fnOut.rsi_confirmed
    /\ RsiDefined
    /\ RsiOver(30)
    /\ RsiUnder(40)

\* ---- C24
\* The strength the two flags stand for.
StrengthOfFlags ==
    IF fnOut.rsi_confirmed /\ fnOut.volume_confirmed THEN "Strong"
    ELSE IF fnOut.rsi_confirmed # fnOut.volume_confirmed THEN "Medium"
    ELSE "Weak"

\* C24, as stated: for a series of any length the strength is Strong, Medium
\* or Weak as both, one or none of the two flags are set.
C24_StrengthFromFlags ==
    fnPc = "done" => fnOut.strength = StrengthOfFlags

\* C24, amended: for a series of at least 20 bars the strength is Strong iff
\* both rsi_confirmed and volume_confirmed, Medium iff exactly one, Weak iff
\* neither; for a series of fewer than 20 bars neither flag is set and the
\* strength is 'None'.
C24_StrengthFromFlagsOrNone ==
    fnPc = "done" =>
        IF Len(fnIn.closes) >= 20
        THEN fnOut.strength = StrengthOfFlags
        ELSE /\ fnOut.strength = "None"
             /\ ~fnOut.rsi_confirmed
             /\ ~fnOut.volume_confirmed

\* A series of 20 bars with one flag set: the volume spike alone.
C24_Witness ==
    /\ fnPc = "done"
    /\ Len(fnIn.closes) = 20
    /\ ~fnOut.rsi_confirmed
    /\ fnOut.volume_confirmed
    /\ fnOut.strength = "Medium"

\* ---- C26
\* C26: no analyzer raises, and on a series shorter than its minimum each
\* returns its default: detect_patterns no pattern below 5 bars, analyze
\* three empty lists below 20, calculate_rsi 50 at every bar below 15,
\* check_volume_confirmation not confirmed below 20, and
\* calculate_support_resistance no level below 5.
C26_ShortSeriesDefaults ==
    fnPc = "done" =>
        LET n == Len(fnIn.frame)
        IN  /\ ~fnOut.raised
            /\ (fnOut.fn = "detect_patterns" /\ n < 5) => fnOut.out = <<>>
            /\ (fnOut.fn = "analyze" /\ n < 20) =>
                 /\ fnOut.out.order_blocks = <<>>
                 /\ fnOut.out.liquidity_grabs = <<>>
                 /\ fnOut.out.break_retest = <<>>
            /\ (fnOut.fn = "calculate_rsi" /\ n < 15) =>
                 /\ Len(fnOut.out) = n
                 /\ \A k \in 1..n :
                      ~fnOut.out[k].nan /\ fnOut.out[k].num = 50 * fnOut.out[k].den
            /\ (fnOut.fn = "check_volume_confirmation" /\ n < 20) =>
                 ~fnOut.out.has_spike
            /\ (fnOut.fn = "calculate_support_resistance" /\ n < 5) =>
                 /\ fnOut.out.support = <<>>
                 /\ fnOut.out.resistance = <<>>

\* analyze on 19 bars whose last bar sweeps the lows and closes up: nothing
\* is reported.
C26_Witness ==
    /\ fnPc = "done"
    /\ fnOut.fn = "analyze"
    /\ Len(fnIn.frame) = 19
    /\ fnIn.frame[19] = [Open |-> 1000, High |-> 1010, Low |-> 800, Close |-> 1005]
    /\ fnOut.out.liquidity_grabs = <<>>

\* ---- C27
\* C27: while a trading loop scans, no loop started after it is alive: a
\* loop that was switched off does not go on scanning beside its successor.
C27_OneLoopActive ==
    \A a, b \in DOMAIN loopPc :
        (a < b /\ loopPc[a] = "scanning") => loopPc[b] \in {"none", "exited"}

\* ---- C28
\* C28: every id the approval file has ever held is still in it, and an
\* /adduser whose add_user returned True leaves its user in the file.
C28_ApprovedSetOnlyGrows ==
    /\ persisted \subseteq approval_file.users
    /\ (lastCmd.cmd = "adduser" /\ lastCmd.ret)
           => lastCmd.target \in approval_file.users

\* ---- C29
\* The sender of the command was neither the admin nor in the approval file
\* when the command was handled.
Stranger(user) == user # "admin" /\ user \notin approval_file.users

\* C29: a command of a user who is neither the admin nor in the approved
\* list changes nothing: is_running, the loops, the scans, what was revealed
\* and the approved list stay as they were; /adduser changes the approved
\* list only for the admin; and the admin is approved whatever the approval
\* file holds and whether or not it can be read.
C29_StrangersChangeNothing ==
    /\ [][(lastCmd'.n # lastCmd.n) =>
            /\ Stranger(lastCmd'.user) =>
                   /\ is_running' = is_running
                   /\ loopPc' = loopPc
                   /\ cmdPc' = cmdPc
                   /\ manual_scans' = manual_scans
                   /\ revealed' = revealed
                   /\ approval_file' = approval_file
            /\ (lastCmd'.cmd = "adduser" /\ lastCmd'.user # "admin") =>
                   approval_file' = approval_file]_vars
    /\ [](\A readable \in BOOLEAN :
              IsUserApproved("admin", approval_file, readable))

\* /autotrade on of bob, who is not approved, was handled, while alice is
\* approved: nothing runs.
C29_Witness ==
    /\ lastCmd.n >= 1
    /\ lastCmd.user = "bob"
    /\ lastCmd.cmd = "autotrade on"
    /\ approval_file.exists
    /\ approval_file.users = {"alice"}
    /\ ~is_running
    /\ cmdPc = "idle"
    /\ \A l \in DOMAIN loopPc : loopPc[l] = "none"

\* ---- C30
\* C30: for every entry above 0 the computed ratio is TARGET_PERCENTAGE_1 /
\* STOP_LOSS_PERCENTAGE whatever the entry and the direction, so the risk
\* gate decides from the configuration alone, the same for every candidate,
\* and every Signal carries that ratio rounded to 2 decimals.
C30_RatioFromConfigurationAlone ==
    (riskPc # "input" /\ riskIn.entry_price > 0) =>
        LET loc == riskOut.loc
            rr == loc.rr_ratio
        IN  /\ rr.num * STOP_LOSS_PERCENTAGE = TARGET_PERCENTAGE_1 * rr.den
            /\ rr.fp = 0
            /\ loc.rejected <=>
                   (TARGET_PERCENTAGE_1 * 10
                        < MIN_RISK_REWARD_RATIO * STOP_LOSS_PERCENTAGE)
            /\ riskPc = "signal" =>
                   riskOut.sig.risk_reward * STOP_LOSS_PERCENTAGE
                       = 100 * TARGET_PERCENTAGE_1

====
